---- MODULE Spec2Model ----
(***************************************************************************)
(* Backr settlement agent: the relational store (users, vouches, debts,    *)
(* payments, credit_history), the borrow / repay / sweep / default         *)
(* services, the garnishing transfer callback registered by POST /connect, *)
(* and the BankClient transport (init, auth, reconnect, disconnect).       *)
(*                                                                         *)
(* Amounts are integers (minor units).  Time is an abstract clock `now`;   *)
(* due dates are clock values.                                             *)
(***************************************************************************)
EXTENDS Integers, Sequences, FiniteSets, TLC

(***************************************************************************)
(* Bounds of the model.                                                    *)
(***************************************************************************)
MaxDebts == 2
MaxLimit == 2
MaxTime == 1
MaxTransfers == 1
MaxRaceTransfers == 2
MaxRepays == 1
MaxIncoming == 100
GarnishDebt == 40
MaxSockets == 7
MaxAllocations == 2
TickMs == 10000
MaxElapsed == 40000
StripDefaults == 6
ScenarioLimit == 3
MaxAgents == 2

(***************************************************************************)
(* Input sets.                                                             *)
(***************************************************************************)
Borrowers == {"b"}
Vouchers == {"v1", "v2"}
LimitAmounts == {-1, MaxLimit}
BorrowAmounts == 1..MaxLimit
RepayAmounts == {-1, MaxLimit}
TransferAmounts == {MaxLimit}
HandlerIds == {1, 2}
AddressChars == {"a", "A", "b"}

(***************************************************************************)
(* CREDIT_SCORE constants (types.ts) and BankClient fields.                *)
(***************************************************************************)
MIN == 300
MAX == 900
DEFAULT == 650
ENS_STRIP_THRESHOLD == 400
LATE_PAYMENT_PENALTY == 25
DEFAULT_PENALTY == 50
ON_TIME_BONUS == 10
DefaultGarnishPercentage == 50
InitialMaxReconnectAttempts == 5
reconnectDelay == 3000
InitTimeoutMs == 30000

VARIABLES
    users,          \* users table: wallet_address -> row
    vouches,        \* vouches table: sequence of rows, id = index
    debts,          \* debts table: sequence of rows, id = index
    payments,       \* payments table: per debt the sum of the inserted
                    \* amounts, the row inserted last, the number of rows
    credit_history, \* credit_history table: the row inserted last
    onchain,        \* Status Oracle: address -> [defaulted, score]
    now,            \* wall clock
    vaultConfigured,    \* VAULT_ADDRESS is set
    contractsConfigured,\* ContractService.isConfigured()
    oracleFaults,   \* the oracle calls whose contract write currently throws
    inflight,       \* a borrow between its vouches query and its inserts
    handlers,       \* in-flight runs of the onTransfer callback
    vaultTotal,     \* total amount sent to the vault through sendTransfer
    lastSplit,      \* the split the callback decided for the latest transfer
    lastResult,     \* outcome of the last service call or of the last
                    \* run of the message handler
    opCount,        \* number of transfers / repayments issued so far
    client          \* the BankClient of the session

storeVars == <<users, vouches, debts, payments, credit_history, onchain>>
vars == <<users, vouches, debts, payments, credit_history, onchain, now,
          vaultConfigured, contractsConfigured, oracleFaults, inflight,
          handlers, vaultTotal,
          lastSplit, lastResult, opCount, client>>

(***************************************************************************)
(* Arithmetic helpers.                                                     *)
(***************************************************************************)
Min(a, b) == IF a <= b THEN a ELSE b
Max(a, b) == IF a >= b THEN a ELSE b
Abs(a) == IF a < 0 THEN 0 - a ELSE a

RECURSIVE Pow2(_)
Pow2(n) == IF n <= 0 THEN 1 ELSE 2 * Pow2(n - 1)

RECURSIVE Pow2Mod100(_)
Pow2Mod100(n) == IF n <= 0 THEN 1 ELSE (2 * Pow2Mod100(n - 1)) % 100

RECURSIVE FloorLog2(_)
FloorLog2(x) == IF x <= 1 THEN 0 ELSE 1 + FloorLog2(x \div 2)

RECURSIVE BinaryShift(_, _)
\* the least s >= 1 with p * 2^s >= 100, for 0 < p < 100
BinaryShift(p, s) == IF p * Pow2(s) >= 100 THEN s ELSE BinaryShift(p, s + 1)

RECURSIVE SumSet(_, _)
SumSet(S, f) ==
    IF S = {} THEN 0
    ELSE LET x == CHOOSE y \in S : TRUE IN f[x] + SumSet(S \ {x}, f)

(***************************************************************************)
(* Math.floor(incoming * (garnishPercent / 100)) in IEEE-754 binary64.     *)
(* q = fl(p/100) has a 53-bit significand m with p/100 in [2^-s, 2^(1-s)); *)
(* 100*m - p*2^(52+s) = d with |d| < 50, so incoming*q = A*p/100 +         *)
(* A*d*2^-(52+s)/100.  When A*p/100 is not an integer the perturbation     *)
(* cannot reach an integer and the floor is exact.  When it is an integer  *)
(* N and d < 0 the product lies just below N and rounds to the double      *)
(* below N exactly when it is further from N than half the gap below N.    *)
(***************************************************************************)
QuotientError(p) ==
    LET s == BinaryShift(p, 1)
        r == (p * Pow2Mod100(52 + s)) % 100
    IN  IF r < 50 THEN 0 - r ELSE 100 - r

FloatFloorPercent(A, p) ==
    IF A = 0 \/ p = 0 THEN 0
    ELSE IF p = 100 THEN A
    ELSE LET s == BinaryShift(p, 1)
             d == QuotientError(p)
             N == (A * p) \div 100
             rem == (A * p) % 100
             f == FloorLog2(N)
             lhs == A * Abs(d) * (IF N = Pow2(f) THEN 2 ELSE 1)
         IN  IF rem # 0 \/ d >= 0 THEN N
             ELSE IF lhs > 100 * Pow2(f + s - 1) THEN N - 1 ELSE N

\* garnishAmount = Math.min(Math.floor(incoming * (pct / 100)), amount_owed)
GarnishAmount(incoming, garnishPercent, amount_owed) ==
    Min(FloatFloorPercent(incoming, garnishPercent), amount_owed)

(***************************************************************************)
(* The relational store: rows, CHECK constraints, and the snapshot record  *)
(* the service operators read and return.                                  *)
(***************************************************************************)
NoHistory == [wallet_address |-> "", old_score |-> DEFAULT,
              new_score |-> DEFAULT]

NewUserRow ==
    [credit_score |-> DEFAULT, ens_stripped |-> FALSE,
     garnish_percentage |-> DefaultGarnishPercentage,
     auto_repay_enabled |-> TRUE]

UsersCheck(row) ==
    /\ row.credit_score >= 300 /\ row.credit_score <= 900
    /\ row.garnish_percentage >= 0 /\ row.garnish_percentage <= 100

VouchesCheck(row) == row.limit_amount > 0 /\ row.current_usage >= 0

DebtsCheck(row) ==
    /\ row.amount_owed >= 0
    /\ row.status \in {"active", "paid", "overdue", "defaulted"}

DB ==
    [users |-> users, vouches |-> vouches, debts |-> debts,
     payments |-> payments, credit_history |-> credit_history,
     onchain |-> onchain, faults |-> oracleFaults]

SetDB(db) ==
    /\ users' = db.users
    /\ vouches' = db.vouches
    /\ debts' = db.debts
    /\ payments' = db.payments
    /\ credit_history' = db.credit_history
    /\ onchain' = db.onchain

\* an UPDATE of one row: rejected (row unchanged) when a CHECK fails
UpdateUser(db, a, row) ==
    IF a \in DOMAIN db.users /\ UsersCheck(row)
    THEN [db EXCEPT !.users = [db.users EXCEPT ![a] = row]] ELSE db

UpdateVouch(db, id, row) ==
    IF id \in 1..Len(db.vouches) /\ VouchesCheck(row)
    THEN [db EXCEPT !.vouches = [db.vouches EXCEPT ![id] = row]] ELSE db

UpdateDebt(db, id, row) ==
    IF id \in 1..Len(db.debts) /\ DebtsCheck(row)
    THEN [db EXCEPT !.debts = [db.debts EXCEPT ![id] = row]] ELSE db

NoPayments == [total |-> <<>>, last |-> [debt_id |-> 0, amount |-> 0,
                                         payment_type |-> "none"],
               rows |-> 0]

\* the sum of the amounts of the payment rows inserted for a debt
PaidTotal(db, d) ==
    IF d \in 1..Len(db.payments.total) THEN db.payments.total[d] ELSE 0

InsertPayment(db, debt_id, amount, payment_type) ==
    [db EXCEPT !.payments =
        [total |-> [d \in 1..Max(debt_id, Len(db.payments.total)) |->
                        PaidTotal(db, d) + (IF d = debt_id THEN amount ELSE 0)],
         last |-> [debt_id |-> debt_id, amount |-> amount,
                   payment_type |-> payment_type],
         rows |-> db.payments.rows + 1]]

OpenStatus == {"active", "overdue"}

\* ids of the borrower's debts with status active or overdue
OpenDebts(db, b) ==
    {i \in 1..Len(db.debts) :
        db.debts[i].borrower_address = b /\ db.debts[i].status \in OpenStatus}

(***************************************************************************)
(* Status Oracle (ContractService).                                        *)
(***************************************************************************)
NoOnchain == [defaulted |-> FALSE, score |-> 0, marks |-> 0]

OnchainOf(db, a) == IF a \in DOMAIN db.onchain THEN db.onchain[a] ELSE NoOnchain

SetOnchain(db, a, rec) ==
    [db EXCEPT !.onchain =
        [x \in (DOMAIN db.onchain) \cup {a} |->
            IF x = a THEN rec ELSE db.onchain[x]]]

\* the three writes of ContractService.  db.faults holds those whose
\* writeContract throws; each catches what it throws and returns, the
\* contract state as it was
OracleCalls == {"markDefault", "clearDefault", "updateCreditScore"}

markDefaultOnChain(db, a) ==
    IF "markDefault" \in db.faults THEN db
    ELSE SetOnchain(db, a, [OnchainOf(db, a) EXCEPT !.defaulted = TRUE,
                                                    !.marks = @ + 1])

clearDefaultOnChain(db, a) ==
    IF "clearDefault" \in db.faults THEN db
    ELSE SetOnchain(db, a, [OnchainOf(db, a) EXCEPT !.defaulted = FALSE])

updateCreditScoreOnChain(db, a, newScore) ==
    IF "updateCreditScore" \in db.faults THEN db
    ELSE SetOnchain(db, a, [OnchainOf(db, a) EXCEPT !.score = newScore])

(***************************************************************************)
(* services.ts: users and credit score.                                    *)
(***************************************************************************)
getOrCreateUser(db, a) ==
    IF a \in DOMAIN db.users THEN db
    ELSE [db EXCEPT !.users =
            [x \in (DOMAIN db.users) \cup {a} |->
                IF x = a THEN NewUserRow ELSE db.users[x]]]

\* a strip that does not look at the flag
StripAlways(user) == TRUE

\* user && !user.ens_stripped
NotYetStripped(user) == ~user.ens_stripped

stripENS(db, a) ==
    IF a \in DOMAIN db.users /\ NotYetStripped(db.users[a])
    THEN LET d1 == UpdateUser(db, a, [db.users[a] EXCEPT !.ens_stripped = TRUE])
         IN  IF contractsConfigured THEN markDefaultOnChain(d1, a) ELSE d1
    ELSE db

\* the update without its clamp
UnclampedScore(oldScore, change) == oldScore + change

ClampScore(oldScore, change) == Max(MIN, Min(MAX, oldScore + change))

\* returns [db, score]: the store afterwards and the returned new score
updateCreditScore(db, a, change) ==
    IF a \notin DOMAIN db.users THEN [db |-> db, score |-> DEFAULT]
    ELSE LET oldScore == db.users[a].credit_score
             newScore == ClampScore(oldScore, change)
             d1 == UpdateUser(db, a, [db.users[a] EXCEPT !.credit_score = newScore])
             d2 == [d1 EXCEPT !.credit_history =
                        [wallet_address |-> a, old_score |-> oldScore,
                         new_score |-> newScore]]
             d3 == IF contractsConfigured
                   THEN updateCreditScoreOnChain(d2, a, newScore) ELSE d2
             d4 == IF newScore < ENS_STRIP_THRESHOLD THEN stripENS(d3, a) ELSE d3
         IN  [db |-> d4, score |-> newScore]

(***************************************************************************)
(* services.ts: vouches.                                                   *)
(***************************************************************************)
Fail(db, msg) == [db |-> db, success |-> FALSE, error |-> msg, debts |-> {}]

VouchIdOf(db, voucher, borrower) ==
    {i \in 1..Len(db.vouches) :
        db.vouches[i].voucher_address = voucher
        /\ db.vouches[i].borrower_address = borrower}

\* a test that lets every pair of addresses through
AnyPair(voucherAddr, borrowerAddr) == FALSE

\* voucherAddr === borrowerAddr
SelfVouch(voucherAddr, borrowerAddr) == voucherAddr = borrowerAddr

createVouch(db, voucher, borrower, limitAmount) ==
    IF SelfVouch(voucher, borrower)
    THEN Fail(db, "Cannot vouch for yourself")
    ELSE LET d1 == getOrCreateUser(getOrCreateUser(db, voucher), borrower)
             existing == VouchIdOf(d1, voucher, borrower)
         IN  IF existing # {}
             THEN LET id == CHOOSE i \in existing : TRUE
                      row == [d1.vouches[id] EXCEPT
                                 !.limit_amount = @ + limitAmount,
                                 !.is_active = TRUE]
                  IN  IF VouchesCheck(row)
                      THEN [db |-> UpdateVouch(d1, id, row), success |-> TRUE,
                            error |-> "", debts |-> {}]
                      ELSE Fail(d1, "Error updating vouch")
             ELSE LET row == [voucher_address |-> voucher,
                              borrower_address |-> borrower,
                              limit_amount |-> limitAmount,
                              current_usage |-> 0, is_active |-> TRUE]
                  IN  IF VouchesCheck(row)
                      THEN [db |-> [d1 EXCEPT !.vouches = Append(d1.vouches, row)],
                            success |-> TRUE, error |-> "", debts |-> {}]
                      ELSE Fail(d1, "Error creating vouch")

\* a revoke that never looks at the debts table
deactivateAlways(db, vouchId) ==
    IF vouchId \in 1..Len(db.vouches)
    THEN [db |-> UpdateVouch(db, vouchId,
                   [db.vouches[vouchId] EXCEPT !.is_active = FALSE]),
          success |-> TRUE, error |-> "", debts |-> {}]
    ELSE [db |-> db, success |-> TRUE, error |-> "", debts |-> {}]

deactivateVouch(db, vouchId) ==
    IF \E i \in 1..Len(db.debts) :
          db.debts[i].vouch_id = vouchId /\ db.debts[i].status \in OpenStatus
    THEN Fail(db, "Cannot deactivate vouch with active debts")
    ELSE IF vouchId \in 1..Len(db.vouches)
         THEN [db |-> UpdateVouch(db, vouchId,
                        [db.vouches[vouchId] EXCEPT !.is_active = FALSE]),
               success |-> TRUE, error |-> "", debts |-> {}]
         ELSE [db |-> db, success |-> TRUE, error |-> "", debts |-> {}]

(***************************************************************************)
(* services.ts: borrow.                                                    *)
(***************************************************************************)
ActiveVouchIds(db, b) ==
    {i \in 1..Len(db.vouches) :
        db.vouches[i].borrower_address = b /\ db.vouches[i].is_active}

\* smallest vouch first
LimitAscending(first, second) == first.limit_amount <= second.limit_amount

\* .order('limit_amount', { ascending: false })
LimitDescending(first, second) == first.limit_amount >= second.limit_amount

\* the orders in which the query may return the borrower's active vouches:
\* every arrangement with limit_amount descending
VouchOrders(db, b) ==
    LET ids == ActiveVouchIds(db, b)
        n == Cardinality(ids)
    IN  {o \in [1..n -> ids] :
            /\ \A i, j \in 1..n : i # j => o[i] # o[j]
            /\ \A i \in 1..n : \A j \in 1..n :
                  i < j => LimitDescending(db.vouches[o[i]],
                                           db.vouches[o[j]])}

\* the capacity of a vouch with its usage forgotten
LimitOnly(row) == row.limit_amount

Remaining(row) == row.limit_amount - row.current_usage

RECURSIVE SumRemaining(_, _, _)
SumRemaining(rows, order, i) ==
    IF i > Len(order) THEN 0
    ELSE Remaining(rows[order[i]]) + SumRemaining(rows, order, i + 1)

getAvailableCredit(db, b) ==
    LET ids == ActiveVouchIds(db, b)
    IN  SumSet(ids, [i \in ids |-> Remaining(db.vouches[i])])

\* a draw that takes all a vouch has left
TakeAvailable(remainingAmount, vouchAvailable) == vouchAvailable

\* borrowFromVouch = Math.min(remainingAmount, vouchAvailable)
BorrowFromVouch(remainingAmount, vouchAvailable) ==
    Min(remainingAmount, vouchAvailable)

\* the allocation loop over the rows the query returned (snapshot `rows`)
RECURSIVE Allocate(_, _, _, _, _, _, _, _)
Allocate(db, rows, order, i, remainingAmount, b, dueDate, created) ==
    IF i > Len(order) \/ remainingAmount <= 0
    THEN [db |-> db, created |-> created]
    ELSE LET vouch == rows[order[i]]
             vouchAvailable == Remaining(vouch)
         IN  IF vouchAvailable <= 0
             THEN Allocate(db, rows, order, i + 1, remainingAmount, b,
                           dueDate, created)
             ELSE LET borrowFromVouch == BorrowFromVouch(remainingAmount,
                                                         vouchAvailable)
                      debt == [borrower_address |-> b,
                               lender_address |-> vouch.voucher_address,
                               vouch_id |-> order[i],
                               original_amount |-> borrowFromVouch,
                               amount_owed |-> borrowFromVouch,
                               due_date |-> dueDate,
                               status |-> "active"]
                      d1 == [db EXCEPT !.debts = Append(db.debts, debt)]
                      d2 == UpdateVouch(d1, order[i],
                               [d1.vouches[order[i]] EXCEPT !.current_usage =
                                   vouch.current_usage + borrowFromVouch])
                  IN  Allocate(d2, rows, order, i + 1,
                               remainingAmount - borrowFromVouch, b, dueDate,
                               created \cup {Len(d1.debts)})

borrow(db, b, amount, repaymentDays, order) ==
    IF Len(order) = 0 THEN Fail(db, "No vouches available")
    ELSE IF amount > SumRemaining(db.vouches, order, 1)
    THEN Fail(db, "Insufficient credit")
    ELSE LET r == Allocate(db, db.vouches, order, 1, amount, b,
                           now + repaymentDays, {})
         IN  IF r.created = {} THEN Fail(r.db, "Failed to create debt")
             ELSE [db |-> r.db, success |-> TRUE, error |-> "",
                   debts |-> r.created]

(***************************************************************************)
(* services.ts: manual repayment.                                          *)
(***************************************************************************)
ReleaseVouch(db, vouchId, original_amount) ==
    IF vouchId \in 1..Len(db.vouches)
    THEN UpdateVouch(db, vouchId,
            [db.vouches[vouchId] EXCEPT !.current_usage =
                Max(0, @ - original_amount)])
    ELSE db

\* a payment row that is never marked as the closing one
AlwaysManual(newAmountOwed) == "manual"

\* payment_type: newAmountOwed === 0 ? 'full' : 'manual'
PaymentType(newAmountOwed) == IF newAmountOwed = 0 THEN "full" ELSE "manual"

repayDebt(db, b, debtId, amount) ==
    IF debtId \notin 1..Len(db.debts) THEN Fail(db, "Debt not found")
    ELSE IF db.debts[debtId].borrower_address # b THEN Fail(db, "Debt not found")
    ELSE IF db.debts[debtId].status = "paid" THEN Fail(db, "Debt already paid")
    ELSE LET debt == db.debts[debtId]
             paymentAmount == Min(amount, debt.amount_owed)
             newAmountOwed == debt.amount_owed - paymentAmount
             d1 == InsertPayment(db, debtId, paymentAmount,
                        PaymentType(newAmountOwed))
             d2 == IF newAmountOwed = 0
                   THEN ReleaseVouch(d1, debt.vouch_id, debt.original_amount)
                   ELSE d1
             d3 == IF newAmountOwed = 0 /\ debt.due_date >= now
                   THEN updateCreditScore(d2, b, ON_TIME_BONUS).db
                   ELSE d2
             d4 == UpdateDebt(d3, debtId,
                        IF newAmountOwed = 0
                        THEN [d3.debts[debtId] EXCEPT !.amount_owed = 0,
                                                      !.status = "paid"]
                        ELSE [d3.debts[debtId] EXCEPT
                                 !.amount_owed = newAmountOwed])
         IN  [db |-> d4, success |-> TRUE, error |-> "", debts |-> {debtId}]

(***************************************************************************)
(* services.ts: overdue sweep and default marking.                         *)
(***************************************************************************)
RECURSIVE SweepFrom(_, _, _)
SweepFrom(db, overdue, i) ==
    IF i > Len(db.debts) THEN db
    ELSE IF i \in overdue
    THEN LET d1 == UpdateDebt(db, i, [db.debts[i] EXCEPT !.status = "overdue"])
             d2 == updateCreditScore(d1, db.debts[i].borrower_address,
                                     0 - LATE_PAYMENT_PENALTY).db
         IN  SweepFrom(d2, overdue, i + 1)
    ELSE SweepFrom(db, overdue, i + 1)

\* a selection that takes the debts already marked overdue as well
PastDueOpen(row, time) == row.status \in OpenStatus /\ row.due_date < time

\* .eq('status', 'active').lt('due_date', now)
PastDueActive(row, time) == row.status = "active" /\ row.due_date < time

checkOverdueDebts(db) ==
    LET overdueDebts == {i \in 1..Len(db.debts) :
            PastDueActive(db.debts[i], now)}
    IN  [db |-> SweepFrom(db, overdueDebts, 1), success |-> TRUE,
         error |-> "", debts |-> overdueDebts]

markDebtDefaulted(db, debtId) ==
    IF debtId \notin 1..Len(db.debts) THEN Fail(db, "Debt not found")
    ELSE IF db.debts[debtId].status \in {"defaulted", "paid"}
    THEN Fail(db, "")
    ELSE LET d1 == UpdateDebt(db, debtId,
                      [db.debts[debtId] EXCEPT !.status = "defaulted"])
             d2 == updateCreditScore(d1, db.debts[debtId].borrower_address,
                                     0 - DEFAULT_PENALTY).db
         IN  [db |-> d2, success |-> TRUE, error |-> "", debts |-> {debtId}]

(***************************************************************************)
(* BankClient: the fields of one client.  sock is the WebSocket object     *)
(* created by the latest init(); ws tells whether this.ws refers to it     *)
(* (FALSE for null).  timer is the delay of the pending backoff sleep of   *)
(* attemptReconnect, 0 when none is pending.  registered tells whether     *)
(* POST /connect has stored the client in activeAgents.  opened,           *)
(* consecutive,                                                            *)
(* capReached, disconnected and openedAfterDisconnect record what the      *)
(* client has done so far.                                                 *)
(***************************************************************************)
NoSocket == [state |-> "none", stage |-> "none", init |-> "none",
             promise |-> "none", sent |-> <<>>]

NewSocket(caller) == [state |-> "connecting", stage |-> "none",
                      init |-> caller, promise |-> "pending", sent |-> <<>>]

\* an answer to the challenge that asks for the balances at once
VerifyAndQuery(sent) ==
    Append(Append(sent, "auth_verify"), "get_ledger_balances")

\* handleMessage on auth_challenge: this.ws!.send(verifyMsg)
SendVerify(sent) == Append(sent, "auth_verify")

NewClient ==
    [ws |-> FALSE, sock |-> NoSocket, isAuthenticated |-> FALSE,
     reconnectAttempts |-> 0,
     maxReconnectAttempts |-> InitialMaxReconnectAttempts,
     registered |-> FALSE,
     timer |-> 0, opened |-> 0, consecutive |-> 0, capReached |-> FALSE,
     disconnected |-> FALSE, openedAfterDisconnect |-> FALSE]

WsOpen(c) == c.ws /\ c.sock.state = "open"

\* isReady()
isReady(c) == c.isAuthenticated /\ WsOpen(c)

\* the client after POST /connect has completed its handshake
ReadyClient ==
    [NewClient EXCEPT
        !.ws = TRUE, !.isAuthenticated = TRUE, !.opened = 1,
        !.registered = TRUE,
        !.sock = [state |-> "open", stage |-> "verified",
                  init |-> "connect", promise |-> "resolved",
                  sent |-> <<"auth_request", "auth_verify",
                             "get_ledger_balances">>]]

\* sendTransfer throws unless authenticated on an open socket
\* a sendTransfer that goes through whatever the state of the session
NeverThrows(c) == FALSE

\* sendTransfer(): throws unless authenticated with an open socket
sendTransferThrows(c) == ~c.isAuthenticated \/ ~WsOpen(c)

\* init(): a new WebSocket, referred to by this.ws
init(c, caller) ==
    [c EXCEPT !.ws = TRUE, !.sock = NewSocket(caller), !.opened = @ + 1,
              !.openedAfterDisconnect = @ \/ c.disconnected]

\* a backoff growing linearly
LinearDelay(attempts) == reconnectDelay * attempts

\* delay = reconnectDelay * Math.pow(2, reconnectAttempts - 1)
BackoffDelay(attempts) == reconnectDelay * Pow2(attempts - 1)

\* attemptReconnect() up to its sleep
attemptReconnect(c) ==
    IF c.reconnectAttempts >= c.maxReconnectAttempts
    THEN [c EXCEPT !.capReached = TRUE]
    ELSE [c EXCEPT !.reconnectAttempts = @ + 1,
                   !.consecutive = @ + 1,
                   !.timer = BackoffDelay(c.reconnectAttempts + 1)]

\* the 'close' handler of init(), preceded by the 'error' handler when the
\* socket never opened
OnClose(c) ==
    attemptReconnect(
        [c EXCEPT !.isAuthenticated = FALSE,
                  !.sock = [@ EXCEPT !.state = "closed",
                               !.promise = IF c.sock.state = "connecting"
                                              /\ @ = "pending"
                                           THEN "rejected" ELSE @]])

\* disconnect()
disconnect(c) ==
    [c EXCEPT !.maxReconnectAttempts = 0,
              !.sock = IF c.ws /\ @.state \in {"connecting", "open"}
                       THEN [@ EXCEPT !.state = "closing"] ELSE @,
              !.ws = FALSE,
              !.isAuthenticated = FALSE,
              !.disconnected = TRUE]

(***************************************************************************)
(* Inbound envelopes.  An address is a sequence of characters.  An         *)
(* envelope is the frame a socket delivered: its payload does not parse    *)
(* ("garbage"), it parses to an object with an error field ("error"), to   *)
(* an object without a res field ("nores"), or to a res of a type with the *)
(* list payload.allocations || payload.state?.allocations || [].           *)
(***************************************************************************)
Addresses == {<<x, y>> : x, y \in AddressChars}

\* this.account.address, in the mixed case viem derives
accountAddress == <<"A", "b">>

Allocations ==
    {[has |-> TRUE, destination |-> d, amount |-> a] :
        d \in Addresses, a \in TransferAmounts}
    \cup {[has |-> FALSE, destination |-> <<>>, amount |-> 0]}

AllocationLists == UNION {[1..n -> Allocations] : n \in 0..MaxAllocations}

TransferTypes == {"transfer", "update_channel", "channel_update"}

MalformedKinds == {"garbage", "error", "nores"}

MalformedEnvelopes ==
    {[kind |-> k, type |-> "none", allocations |-> <<>>] : k \in MalformedKinds}

TransferEnvelopes ==
    {[kind |-> "res", type |-> t, allocations |-> l] :
        t \in TransferTypes, l \in AllocationLists}

LedgerEnvelope ==
    [kind |-> "res", type |-> "ledger_balances", allocations |-> <<>>]

\* String.prototype.toLowerCase
toLowerCase(str) ==
    [i \in DOMAIN str |-> IF str[i] = "A" THEN "a"
                          ELSE IF str[i] = "B" THEN "b" ELSE str[i]]

\* a comparison of the destination with the address as they are written
SameSpelling(a, address) == a.has /\ a.destination = address

\* a.destination?.toLowerCase() === this.account.address.toLowerCase()
DestinationMatches(a, address) ==
    a.has /\ toLowerCase(a.destination) = toLowerCase(address)

\* allocations.some(...)
isIncoming(allocations, address) ==
    \E i \in DOMAIN allocations : DestinationMatches(allocations[i], address)

\* allocations.find(...)
incomingAlloc(allocations, address) ==
    allocations[CHOOSE i \in DOMAIN allocations :
        /\ DestinationMatches(allocations[i], address)
        /\ \A j \in DOMAIN allocations :
              DestinationMatches(allocations[j], address) => i <= j]

\* handleMessage reaches `await this.transferCallback(transferData)`
InvokesCallback(c, env) ==
    /\ env.kind = "res"
    /\ env.type \in TransferTypes
    /\ isIncoming(env.allocations, accountAddress)
    /\ c.registered

(***************************************************************************)
(* The onTransfer callback registered by POST /connect, one step per       *)
(* store round trip.  userAddress is the identity of the session.          *)
(***************************************************************************)
userAddress == "b"

Idle == [pc |-> "idle", amount |-> 0, pct |-> 0, debt |-> 0, owed |-> 0,
         garnish |-> 0, usage |-> 0]

NoSplit == [amount |-> 0, pct |-> 0, debt |-> 0, owed |-> 0, garnish |-> 0,
            remainder |-> 0, accepted |-> FALSE, sent |-> 0, log |-> <<>>]

\* the calls a run makes on the BankClient when it pays the vault first
PayThenAccept(sends) ==
    IF sends THEN <<"sendTransfer", "acceptTransfer">> ELSE <<"acceptTransfer">>

\* the calls a run makes on the BankClient: acceptTransfer, then sendTransfer
\* inside `if (garnishAmount > 0 && VAULT_ADDRESS)`
AcceptThenPay(sends) ==
    IF sends THEN <<"acceptTransfer", "sendTransfer">> ELSE <<"acceptTransfer">>

\* a toggle that is never looked at
AutoRepayAlways(db, a) == TRUE

\* currentUser?.auto_repay_enabled
AutoRepayOn(db, a) == a \in DOMAIN db.users /\ db.users[a].auto_repay_enabled

\* a payment that does not need the vault
PayAnyway(garnishAmount) == garnishAmount > 0

\* garnishAmount > 0 && VAULT_ADDRESS
ShouldPay(garnishAmount) == garnishAmount > 0 /\ vaultConfigured

NoResult == [op |-> "none"]

\* no borrow is between its query and its inserts
NoBorrow == [pc |-> "none"]

envVars == <<vaultConfigured, contractsConfigured, oracleFaults, inflight>>

\* the debts the query ordered by due_date ascending may return first
OldestOpenDebts(db, b) ==
    {i \in OpenDebts(db, b) :
        \A j \in OpenDebts(db, b) : db.debts[i].due_date <= db.debts[j].due_date}

FreeSlot(h) ==
    /\ handlers[h].pc = "idle"
    /\ \A g \in HandlerIds : g < h => handlers[g].pc # "idle"

\* the callback is invoked with a transfer of A and reads the settings
CallbackStarts(h, A, cap) ==
    /\ FreeSlot(h)
    /\ opCount.transfers < cap
    /\ opCount' = [opCount EXCEPT !.transfers = @ + 1]
    /\ LET auto == AutoRepayOn(DB, userAddress)
       IN  IF auto
           THEN /\ handlers' = [handlers EXCEPT ![h] =
                      [Idle EXCEPT !.pc = "debts", !.amount = A,
                          !.pct = users[userAddress].garnish_percentage]]
                /\ UNCHANGED lastSplit
           ELSE /\ UNCHANGED handlers
                /\ lastSplit' = [NoSplit EXCEPT !.amount = A, !.remainder = A,
                                                !.accepted = TRUE,
                                                !.log = AcceptThenPay(FALSE)]
    /\ UNCHANGED <<storeVars, now, envVars, vaultTotal>>

\* an incoming transfer is detected by the router of a ready client
TransferArrives(h, A, cap) ==
    /\ CallbackStarts(h, A, cap)
    /\ lastResult' = NoResult
    /\ UNCHANGED client

\* the debts query returns; split, accept, and send the garnish to the vault
HDebts(h) ==
    /\ handlers[h].pc = "debts"
    /\ lastResult' = NoResult
    /\ IF OpenDebts(DB, userAddress) = {}
       THEN /\ handlers' = [handlers EXCEPT ![h] = Idle]
            /\ lastSplit' = [NoSplit EXCEPT !.amount = handlers[h].amount,
                                !.pct = handlers[h].pct,
                                !.remainder = handlers[h].amount,
                                !.accepted = TRUE,
                                !.log = AcceptThenPay(FALSE)]
            /\ UNCHANGED vaultTotal
       ELSE \E d \in OldestOpenDebts(DB, userAddress) :
            LET incoming == handlers[h].amount
                garnishAmount == GarnishAmount(incoming, handlers[h].pct,
                                               debts[d].amount_owed)
                pays == ShouldPay(garnishAmount)
                sends == pays /\ ~sendTransferThrows(client)
            IN  /\ lastSplit' =
                      [amount |-> incoming, pct |-> handlers[h].pct,
                       debt |-> d,
                       owed |-> debts[d].amount_owed,
                       garnish |-> garnishAmount,
                       remainder |-> incoming - garnishAmount,
                       accepted |-> TRUE,
                       sent |-> IF sends THEN garnishAmount ELSE 0,
                       log |-> AcceptThenPay(pays)]
                /\ IF sends
                   THEN /\ vaultTotal' = vaultTotal + garnishAmount
                        /\ handlers' = [handlers EXCEPT ![h] =
                              [@ EXCEPT !.pc = "payment", !.debt = d,
                                        !.owed = debts[d].amount_owed,
                                        !.garnish = garnishAmount]]
                   ELSE /\ UNCHANGED vaultTotal
                        /\ handlers' = [handlers EXCEPT ![h] = Idle]
    /\ UNCHANGED <<storeVars, now, envVars, opCount, client>>

HFrame == <<now, envVars, vaultTotal, lastSplit, opCount, client>>

HPayment(h) ==
    /\ handlers[h].pc = "payment"
    /\ SetDB(InsertPayment(DB, handlers[h].debt, handlers[h].garnish, "garnish"))
    /\ handlers' = [handlers EXCEPT ![h].pc = "update"]
    /\ lastResult' = NoResult
    /\ UNCHANGED HFrame

HUpdate(h) ==
    /\ handlers[h].pc = "update"
    /\ LET d == handlers[h].debt
           newDebtAmount == Max(0, handlers[h].owed - handlers[h].garnish)
       IN  IF newDebtAmount = 0
           THEN /\ SetDB(UpdateDebt(DB, d, [debts[d] EXCEPT
                            !.amount_owed = 0, !.status = "paid"]))
                /\ handlers' = [handlers EXCEPT ![h].pc = "vouchread"]
           ELSE /\ SetDB(UpdateDebt(DB, d, [debts[d] EXCEPT
                            !.amount_owed = newDebtAmount]))
                /\ handlers' = [handlers EXCEPT ![h] = Idle]
    /\ lastResult' = NoResult
    /\ UNCHANGED HFrame

HVouchRead(h) ==
    /\ handlers[h].pc = "vouchread"
    /\ LET v == debts[handlers[h].debt].vouch_id
       IN  handlers' = [handlers EXCEPT ![h] =
              [@ EXCEPT !.pc = "vouchwrite",
                         !.usage = vouches[v].current_usage]]
    /\ lastResult' = NoResult
    /\ UNCHANGED <<storeVars, HFrame>>

HVouchWrite(h) ==
    /\ handlers[h].pc = "vouchwrite"
    /\ LET d == handlers[h].debt
           v == debts[d].vouch_id
       IN  SetDB(UpdateVouch(DB, v, [vouches[v] EXCEPT !.current_usage =
                    Max(0, handlers[h].usage - debts[d].original_amount)]))
    /\ handlers' = [handlers EXCEPT ![h].pc = "score"]
    /\ lastResult' = NoResult
    /\ UNCHANGED HFrame

HScore(h) ==
    /\ handlers[h].pc = "score"
    /\ LET isOnTime == debts[handlers[h].debt].due_date >= now
       IN  IF isOnTime
           THEN SetDB(updateCreditScore(DB, userAddress, ON_TIME_BONUS).db)
           ELSE UNCHANGED storeVars
    /\ handlers' = [handlers EXCEPT ![h].pc = "remaining"]
    /\ lastResult' = NoResult
    /\ UNCHANGED HFrame

\* a payoff that clears the default status whatever else is owed
ClearAlways(db, b, debt) == TRUE

\* !remainingDebts || remainingDebts.length === 0, for the query of the
\* borrower's active and overdue debts other than the one paid
NoneRemaining(db, b, debt) == OpenDebts(db, b) \ {debt} = {}

HRemaining(h) ==
    /\ handlers[h].pc = "remaining"
    /\ handlers' = [handlers EXCEPT ![h] =
           IF NoneRemaining(DB, userAddress, handlers[h].debt)
           THEN [@ EXCEPT !.pc = "clear"] ELSE Idle]
    /\ lastResult' = NoResult
    /\ UNCHANGED <<storeVars, HFrame>>

\* the users table with the stripped flag of a cleared
ClearStripped(db, a) ==
    IF a \in DOMAIN db.users
    THEN UpdateUser(db, a, [db.users[a] EXCEPT !.ens_stripped = FALSE])
    ELSE db

\* a clearing whose local write is lost when the oracle call before it fails
ClearUnlessFault(db, a) ==
    IF contractsConfigured /\ "clearDefault" \in db.faults THEN db
    ELSE ClearStripped(IF contractsConfigured
                       THEN clearDefaultOnChain(db, a) ELSE db, a)

\* the default status is cleared on the oracle, then in the users table
ClearDefaultStatus(db, a) ==
    ClearStripped(IF contractsConfigured
                  THEN clearDefaultOnChain(db, a) ELSE db, a)

HClear(h) ==
    /\ handlers[h].pc = "clear"
    /\ SetDB(ClearDefaultStatus(DB, userAddress))
    /\ handlers' = [handlers EXCEPT ![h] = Idle]
    /\ lastResult' = NoResult
    /\ UNCHANGED HFrame

HandlerStep(h) ==
    \/ HDebts(h) \/ HPayment(h) \/ HUpdate(h) \/ HVouchRead(h)
    \/ HVouchWrite(h) \/ HScore(h) \/ HRemaining(h) \/ HClear(h)

(***************************************************************************)
(* Service calls, each executed to completion.                             *)
(***************************************************************************)
Quiet == <<now, envVars, handlers, vaultTotal, lastSplit, client>>

\* the return value of a service call, with the rows it found
Result(op, b, amount, r) ==
    [op |-> op, borrower |-> b, amount |-> amount, success |-> r.success,
     error |-> r.error, debts |-> r.debts, pre |-> vouches,
     preDebts |-> Len(debts),
     preScore |-> IF b \in DOMAIN users THEN users[b].credit_score
                  ELSE DEFAULT,
     time |-> now]

CreateVouch(voucher, b, limitAmount) ==
    /\ LET r == createVouch(DB, voucher, b, limitAmount)
       IN  /\ \A i \in 1..Len(r.db.vouches) :
                 r.db.vouches[i].limit_amount <= MaxLimit
           /\ SetDB(r.db)
           /\ lastResult' = IF r.success THEN NoResult
                            ELSE [op |-> "vouch", voucher |-> voucher,
                                  success |-> FALSE, error |-> r.error]
    /\ UNCHANGED <<Quiet, opCount>>

DeactivateVouch(vouchId) ==
    /\ vouchId \in 1..Len(vouches)
    /\ LET r == deactivateVouch(DB, vouchId)
       IN  /\ SetDB(r.db)
           /\ lastResult' = [op |-> "deactivate", vouch |-> vouchId,
                             success |-> r.success, error |-> r.error]
    /\ UNCHANGED <<Quiet, opCount>>

Borrow(b, amount, repaymentDays, cap) ==
    \E order \in VouchOrders(DB, b) :
        LET r == borrow(DB, b, amount, repaymentDays, order)
        IN  /\ Len(r.db.debts) <= cap
            /\ SetDB(r.db)
            /\ lastResult' = Result("borrow", b, amount, r)
            /\ UNCHANGED <<Quiet, opCount>>

\* borrow() up to its loop: the vouches query and the credit test; the rows
\* it goes on with are the ones it has read
BorrowReads(b, amount, repaymentDays) ==
    /\ inflight = NoBorrow
    /\ \E order \in VouchOrders(DB, b) :
          LET r == borrow(DB, b, amount, repaymentDays, order)
          IN  IF r.success \/ r.error = "Failed to create debt"
              THEN /\ inflight' = [pc |-> "insert", borrower |-> b,
                                   amount |-> amount, rows |-> vouches,
                                   order |-> order,
                                   dueDate |-> now + repaymentDays]
                   /\ lastResult' = NoResult
              ELSE /\ lastResult' = Result("borrow", b, amount, r)
                   /\ UNCHANGED inflight
    /\ UNCHANGED <<storeVars, now, vaultConfigured, contractsConfigured,
                   oracleFaults, handlers, vaultTotal, lastSplit, client,
                   opCount>>

\* the loop of borrow(): per vouch read, a debts insert and the write of
\* current_usage computed from the row read
BorrowInserts(cap) ==
    /\ inflight # NoBorrow
    /\ LET r == Allocate(DB, inflight.rows, inflight.order, 1,
                         inflight.amount, inflight.borrower,
                         inflight.dueDate, {})
       IN  /\ Len(r.db.debts) <= cap
           /\ SetDB(r.db)
           /\ lastResult' =
                 Result("borrow", inflight.borrower, inflight.amount,
                        IF r.created = {}
                        THEN Fail(r.db, "Failed to create debt")
                        ELSE [db |-> r.db, success |-> TRUE, error |-> "",
                              debts |-> r.created])
    /\ inflight' = NoBorrow
    /\ UNCHANGED <<now, vaultConfigured, contractsConfigured, oracleFaults,
                   handlers, vaultTotal, lastSplit, client, opCount>>

RepayDebt(b, debtId, amount, cap) ==
    /\ opCount.repays < cap
    /\ LET r == repayDebt(DB, b, debtId, amount)
       IN  /\ SetDB(r.db)
           /\ opCount' = [opCount EXCEPT !.repays =
                            IF r.success THEN @ + 1 ELSE @]
           /\ lastResult' = Result("repay", b, amount, r)
    /\ UNCHANGED <<Quiet>>

CheckOverdueDebts ==
    /\ LET r == checkOverdueDebts(DB)
       IN  /\ SetDB(r.db)
           /\ lastResult' = [op |-> "sweep", debts |-> r.debts]
    /\ UNCHANGED <<Quiet, opCount>>

MarkDebtDefaulted(debtId) ==
    /\ debtId \in 1..Len(debts)
    /\ LET r == markDebtDefaulted(DB, debtId)
       IN  /\ SetDB(r.db)
           /\ lastResult' = NoResult
    /\ UNCHANGED <<Quiet, opCount>>

Tick ==
    /\ now < MaxTime
    /\ now' = now + 1
    /\ lastResult' = NoResult
    /\ UNCHANGED <<storeVars, envVars, handlers, vaultTotal, lastSplit,
                   opCount, client>>

\* updateUserSettings with { auto_repay_enabled }
updateUserSettings(db, a, enabled) ==
    IF a \in DOMAIN db.users
    THEN UpdateUser(db, a, [db.users[a] EXCEPT !.auto_repay_enabled = enabled])
    ELSE db

\* PATCH /user/:address/settings
UpdateUserSettings(a, enabled) ==
    /\ SetDB(updateUserSettings(DB, a, enabled))
    /\ lastResult' = NoResult
    /\ UNCHANGED <<Quiet, opCount>>

\* a score update issued by a service (repayment, sweep, default marking)
UpdateCreditScore(a, change) ==
    /\ SetDB(updateCreditScore(DB, a, change).db)
    /\ lastResult' = NoResult
    /\ UNCHANGED <<Quiet, opCount>>

(***************************************************************************)
(* BankClient events.                                                      *)
(***************************************************************************)
SFrame == <<storeVars, now, envVars, handlers, vaultTotal, lastSplit,
            lastResult, opCount>>

\* POST /connect that starts an agent whatever is running
connectAlways(c) == [client |-> init(c, "connect"), status |-> "starting"]

\* POST /connect up to `await bank.init()`: the agent stored for the
\* identity is asked isReady(); a new BankClient is initialised otherwise
connect(c) ==
    IF c.registered /\ isReady(c)
    THEN [client |-> c, status |-> "Agent already running"]
    ELSE [client |-> init(c, "connect"), status |-> "starting"]

\* POST /connect for the identity of the session, while its agent is ready
\* or before any BankClient exists
Connect ==
    /\ \/ client.registered /\ isReady(client)
       \/ client.opened = 0 /\ ~client.disconnected
    /\ LET r == connect(client)
       IN  /\ client' = r.client
           /\ lastResult' = [op |-> "connect", status |-> r.status,
                             ready |-> client.registered /\ isReady(client)]
    /\ UNCHANGED <<storeVars, now, envVars, handlers, vaultTotal, lastSplit,
                   opCount>>

\* 'open': startAuthFlow sends the auth request, or throws and rejects
WsOpenEvent ==
    /\ client.sock.state = "connecting"
    /\ client' = [client EXCEPT !.sock =
            IF client.ws
            THEN [@ EXCEPT !.state = "open", !.stage = "requested",
                           !.sent = Append(@, "auth_request")]
            ELSE [@ EXCEPT !.state = "open",
                     !.promise = IF @ = "pending" THEN "rejected" ELSE @]]
    /\ UNCHANGED SFrame

\* 'message' auth_challenge: the verify message is sent
RecvAuthChallenge ==
    /\ WsOpen(client)
    /\ client.sock.stage = "requested"
    /\ client' = [client EXCEPT !.sock.stage = "challenged",
                                !.sock.sent = SendVerify(@)]
    /\ UNCHANGED SFrame

\* 'message' auth_verify: authenticated; init() resolves if it was not
\* authenticated before; POST /connect awaiting it stores the client, a
\* reconnect awaiting it resets its counter
RecvAuthVerify ==
    /\ WsOpen(client)
    /\ client.sock.stage = "challenged"
    /\ LET resolves == ~client.isAuthenticated
                       /\ client.sock.promise = "pending"
           reset == resolves /\ client.sock.init = "reconnect"
       IN  client' = [client EXCEPT
               !.isAuthenticated = TRUE,
               !.sock = [@ EXCEPT !.stage = "verified",
                            !.sent = Append(@, "get_ledger_balances"),
                            !.promise = IF resolves THEN "resolved" ELSE @],
               !.registered = @ \/ (resolves /\ client.sock.init = "connect"),
               !.reconnectAttempts = IF reset THEN 0 ELSE @,
               !.consecutive = IF reset THEN 0 ELSE @]
    /\ UNCHANGED SFrame

\* 'message' with an envelope other than the two of the handshake: the
\* handler of init() runs handleMessage; authentication is unchanged, so the
\* handler resolves nothing
RecvMessage(env, h, cap) ==
    /\ client.sock.state = "open"
    /\ IF InvokesCallback(client, env)
       THEN CallbackStarts(h, incomingAlloc(env.allocations,
                                            accountAddress).amount, cap)
       ELSE UNCHANGED <<storeVars, now, envVars, vaultTotal, handlers,
                        lastSplit, opCount>>
    /\ lastResult' = [op |-> "message", env |-> env,
                      invoked |-> InvokesCallback(client, env),
                      auth |-> client.isAuthenticated,
                      registered |-> client.registered]
    /\ UNCHANGED client

\* the connection fails or drops: 'close'
UnexpectedClose ==
    /\ client.sock.state \in {"connecting", "open"}
    /\ client.opened < MaxSockets
    /\ client' = OnClose(client)
    /\ UNCHANGED SFrame

\* 'close' of a socket that disconnect() closed
CloseEvent ==
    /\ client.sock.state = "closing"
    /\ client' = OnClose(client)
    /\ UNCHANGED SFrame

\* the backoff sleep of attemptReconnect ends: await this.init()
ReconnectTimerFires ==
    /\ client.timer > 0
    /\ client' = init([client EXCEPT !.timer = 0], "reconnect")
    /\ UNCHANGED SFrame

\* the 30 s timer of init() rejects
InitTimeout ==
    /\ client.sock.promise = "pending"
    /\ client' = [client EXCEPT !.sock.promise = "rejected"]
    /\ UNCHANGED SFrame

\* POST /disconnect: bank.disconnect()
Disconnect ==
    /\ client.registered
    /\ ~client.disconnected
    /\ client' = disconnect(client)
    /\ UNCHANGED SFrame

(***************************************************************************)
(* The agents of one identity (server): activeAgents[userAddress] and the  *)
(* BankClient objects POST /connect has created for it.  An agent is       *)
(* summarised by the state of its transport and by whether onTransfer has  *)
(* given it the garnishing callback; active is the index of the agent      *)
(* stored in activeAgents, 0 for none; a request is a POST /connect        *)
(* between its isReady() test and the storing of its agent.                *)
(***************************************************************************)
ConnectRequests == {1, 2}

NoAgents ==
    [agents |-> <<>>, active |-> 0,
     requests |-> [r \in ConnectRequests |-> [pc |-> "idle", bank |-> 0]]]

\* activeAgents[userAddress]?.isReady()
activeIsReady(c) == c.active # 0 /\ c.agents[c.active].transport = "ready"

\* a transport that is open and authenticated, with a transfer callback
LiveSessions(c) ==
    {a \in 1..Len(c.agents) :
        c.agents[a].transport = "ready" /\ c.agents[a].callback}

\* agents that still run, or will reconnect, and are not in activeAgents
Unregistered(c) ==
    {a \in 1..Len(c.agents) :
        /\ a # c.active
        /\ c.agents[a].callback
        /\ c.agents[a].transport \in {"ready", "reconnecting"}}

\* POST /connect up to `await bank.init()`
ConnectBegins(r) ==
    /\ client.requests[r].pc = "idle"
    /\ IF activeIsReady(client)
       THEN /\ lastResult' = [op |-> "connect", request |-> r,
                              status |-> "Agent already running"]
            /\ UNCHANGED client
       ELSE /\ Len(client.agents) < MaxAgents
            /\ client' = [client EXCEPT
                   !.agents = Append(@, [transport |-> "handshake",
                                         callback |-> FALSE]),
                   !.requests[r] = [pc |-> "init",
                                    bank |-> Len(client.agents) + 1]]
            /\ lastResult' = [op |-> "connect", request |-> r,
                              status |-> "starting"]
    /\ UNCHANGED <<storeVars, now, envVars, handlers, vaultTotal, lastSplit,
                   opCount>>

\* the request awaiting the init() of agent a, if any
Awaiting(c, a) == {r \in ConnectRequests : c.requests[r].bank = a}

\* auth_verify arrives: the agent is authenticated; a POST /connect awaiting
\* its init() goes on to bank.onTransfer(...) and
\* activeAgents[userAddress] = bank
AgentAuthenticated(a) ==
    /\ a \in 1..Len(client.agents)
    /\ client.agents[a].transport \in {"handshake", "reconnecting"}
    /\ client' = [client EXCEPT
           !.agents[a] = [transport |-> "ready",
                          callback |-> @.callback \/ Awaiting(client, a) # {}],
           !.active = IF Awaiting(client, a) # {} THEN a ELSE @,
           !.requests = [r \in ConnectRequests |->
                            IF r \in Awaiting(client, a)
                            THEN [pc |-> "idle", bank |-> 0] ELSE @[r]]]
    /\ UNCHANGED SFrame

\* the socket of an agent drops: 'close' and attemptReconnect; init() of
\* an agent that was not yet authenticated rejects and its POST /connect
\* answers 500
AgentClose(a) ==
    /\ a \in 1..Len(client.agents)
    /\ client.agents[a].transport \in {"handshake", "ready"}
    /\ client' = [client EXCEPT
           !.agents[a].transport = "reconnecting",
           !.requests = [r \in ConnectRequests |->
                            IF r \in Awaiting(client, a)
                            THEN [pc |-> "idle", bank |-> 0] ELSE @[r]]]
    /\ UNCHANGED SFrame

\* POST /disconnect: activeAgents[address].disconnect(); delete the entry
AgentDisconnect ==
    /\ client.active # 0
    /\ client' = [client EXCEPT !.agents[client.active].transport = "closed",
                                !.active = 0]
    /\ UNCHANGED SFrame

(***************************************************************************)
(* The daemon (backend/index.ts with backend/bankClient.ts): one           *)
(* BankClient whose constructor opens the socket; init() attaches the      *)
(* 'open', 'message' and 'error' handlers; main() registers the callback   *)
(* once init() has resolved.  elapsed is the time since init() was called. *)
(* crashed tells that a rejection nobody handles has ended the process.    *)
(***************************************************************************)
NewDaemon ==
    [sock |-> "connecting", stage |-> "none", isAuthenticated |-> FALSE,
     promise |-> "pending", registered |-> FALSE, elapsed |-> 0,
     crashed |-> FALSE]

DaemonTransferTypes == {"transfer", "update_channel"}

\* payload.allocations?.some(a => a.destination === this.account.address)
daemonIsIncoming(allocations, address) ==
    \E i \in DOMAIN allocations : SameSpelling(allocations[i], address)

DaemonInvokesCallback(c, env) ==
    /\ env.kind = "res"
    /\ env.type \in DaemonTransferTypes
    /\ daemonIsIncoming(env.allocations, accountAddress)
    /\ c.registered

\* `if (this.isAuthenticated) resolve()` after handleMessage has returned;
\* main() then registers the callback
DaemonResolve(c) ==
    IF c.isAuthenticated /\ c.promise = "pending"
    THEN [c EXCEPT !.promise = "resolved", !.registered = TRUE]
    ELSE c

DFrame == <<storeVars, now, envVars, handlers, vaultTotal, lastSplit, opCount>>

\* 'open': startAuthFlow sends the auth request
DaemonOpen ==
    /\ ~client.crashed
    /\ client.sock = "connecting"
    /\ client' = [client EXCEPT !.sock = "open", !.stage = "requested"]
    /\ UNCHANGED <<DFrame, lastResult>>

\* 'message' auth_challenge: the verify message is sent
DaemonRecvAuthChallenge ==
    /\ ~client.crashed
    /\ client.sock = "open"
    /\ client.stage = "requested"
    /\ client' = DaemonResolve([client EXCEPT !.stage = "challenged"])
    /\ UNCHANGED <<DFrame, lastResult>>

\* 'message' auth_verify
DaemonRecvAuthVerify ==
    /\ ~client.crashed
    /\ client.sock = "open"
    /\ client.stage = "challenged"
    /\ client' = DaemonResolve([client EXCEPT !.stage = "verified",
                                              !.isAuthenticated = TRUE])
    /\ UNCHANGED <<DFrame, lastResult>>

\* 'message' with any other envelope.  JSON.parse throws out of the async
\* listener on a payload that does not parse: the rejection is unhandled,
\* and the runtime either ends the process or goes on.  The callback of
\* index.ts finds no debt of its placeholder address and accepts.
DaemonRecvMessage(env) ==
    /\ ~client.crashed
    /\ client.sock = "open"
    /\ IF env.kind = "garbage"
       THEN \E ends \in BOOLEAN : client' = [client EXCEPT !.crashed = ends]
       ELSE client' = DaemonResolve(client)
    /\ lastResult' = [op |-> "message", env |-> env,
                      invoked |-> DaemonInvokesCallback(client, env),
                      auth |-> client.isAuthenticated,
                      registered |-> client.registered]
    /\ UNCHANGED DFrame

\* 'error': reject(err); the socket closes
DaemonError ==
    /\ ~client.crashed
    /\ client.sock \in {"connecting", "open"}
    /\ client' = [client EXCEPT !.sock = "closed",
                     !.promise = IF @ = "pending" THEN "rejected" ELSE @]
    /\ UNCHANGED <<DFrame, lastResult>>

\* the socket closes without an error: no listener is attached
DaemonClose ==
    /\ ~client.crashed
    /\ client.sock \in {"connecting", "open"}
    /\ client' = [client EXCEPT !.sock = "closed"]
    /\ UNCHANGED <<DFrame, lastResult>>

\* time passes; init() has set no timer
DaemonTick ==
    /\ ~client.crashed
    /\ client.elapsed < MaxElapsed
    /\ client' = [client EXCEPT !.elapsed = @ + TickMs]
    /\ UNCHANGED <<DFrame, lastResult>>

\* the daemon once main() has registered its callback
ReadyDaemon ==
    [NewDaemon EXCEPT !.sock = "open", !.stage = "verified",
                      !.isAuthenticated = TRUE, !.promise = "resolved",
                      !.registered = TRUE]

\* the rows the daemon's query may return first: those of the borrower with
\* amount_owed > 0, in no stated order
daemonDebts(db, a) ==
    {i \in 1..Len(db.debts) :
        db.debts[i].borrower_address = a /\ db.debts[i].amount_owed > 0}

\* the callback main() registers, for the address it is configured with:
\* debts[0] of the query, half of the transfer to the vault, amount_owed
\* lowered
DaemonOnTransfer(A, cap) ==
    /\ client.registered /\ client.isAuthenticated /\ ~client.crashed
    /\ opCount.transfers < cap
    /\ opCount' = [opCount EXCEPT !.transfers = @ + 1]
    /\ lastResult' = NoResult
    /\ IF daemonDebts(DB, userAddress) = {}
       THEN /\ lastSplit' = [NoSplit EXCEPT !.amount = A, !.remainder = A,
                                            !.accepted = TRUE,
                                            !.log = AcceptThenPay(FALSE)]
            /\ UNCHANGED <<storeVars, vaultTotal>>
       ELSE \E d \in daemonDebts(DB, userAddress) :
            LET garnishAmount == A \div 2
                newDebt == Max(0, debts[d].amount_owed - garnishAmount)
            IN  /\ lastSplit' =
                      [amount |-> A, pct |-> 50, debt |-> d,
                       owed |-> debts[d].amount_owed,
                       garnish |-> garnishAmount,
                       remainder |-> A - garnishAmount, accepted |-> TRUE,
                       sent |-> garnishAmount,
                       log |-> AcceptThenPay(garnishAmount > 0)]
                /\ vaultTotal' = vaultTotal + garnishAmount
                /\ IF garnishAmount > 0
                   THEN SetDB(UpdateDebt(DB, d, [debts[d] EXCEPT
                                   !.amount_owed = newDebt]))
                   ELSE UNCHANGED storeVars
    /\ UNCHANGED <<now, envVars, handlers, client>>

(***************************************************************************)
(* Initial states.  The server after POST /connect for the borrower has    *)
(* completed: an empty store but for the borrower's row, no callback in    *)
(* flight, vault and oracle configured.                                    *)
(***************************************************************************)
EmptyStore ==
    [users |-> [a \in {userAddress} |-> NewUserRow], vouches |-> <<>>,
     debts |-> <<>>, payments |-> NoPayments, credit_history |-> NoHistory,
     onchain |-> [a \in {} |-> NoOnchain], faults |-> {}]

StoreIs(db) ==
    /\ users = db.users
    /\ vouches = db.vouches
    /\ debts = db.debts
    /\ payments = db.payments
    /\ credit_history = db.credit_history
    /\ onchain = db.onchain

\* the state of the server but for its store, its settings and its client
InitServer ==
    /\ now = 0
    /\ inflight = NoBorrow
    /\ handlers = [h \in HandlerIds |-> Idle]
    /\ vaultTotal = 0
    /\ lastSplit = NoSplit
    /\ lastResult = NoResult
    /\ opCount = [transfers |-> 0, repays |-> 0]

InitRest ==
    /\ InitServer
    /\ vaultConfigured = TRUE
    /\ contractsConfigured = TRUE
    /\ oracleFaults = {}

Init == InitRest /\ client = ReadyClient /\ StoreIs(EmptyStore)

(***************************************************************************)
(* Spec: the ledger.  Service calls run to completion; one transfer        *)
(* callback runs interleaved with them.                                    *)
(***************************************************************************)
Next ==
    \/ \E a \in LimitAmounts : CreateVouch("v1", "b", a)
    \/ DeactivateVouch(1)
    \/ \E a \in BorrowAmounts : Borrow("b", a, 0, MaxDebts)
    \/ \E id \in 1..MaxDebts, a \in RepayAmounts :
          RepayDebt("b", id, a, MaxRepays)
    \/ CheckOverdueDebts
    \/ \E id \in 1..MaxDebts : MarkDebtDefaulted(id)
    \/ Tick
    \/ \E A \in TransferAmounts : TransferArrives(1, A, MaxTransfers)
    \/ HandlerStep(1)

Spec == Init /\ [][Next]_vars

(***************************************************************************)
(* SpecGarnish: one transfer of any amount up to MaxIncoming arrives for a *)
(* borrower whose garnish percentage was set to any value PATCH            *)
(* /api/user/:address/settings accepts, and who owes GarnishDebt on one    *)
(* debt (the store after createVouch and borrow).                          *)
(***************************************************************************)
GarnishStore(p) ==
    LET d0 == [EmptyStore EXCEPT !.users[userAddress].garnish_percentage = p]
        d1 == createVouch(d0, "v1", userAddress, GarnishDebt).db
    IN  borrow(d1, userAddress, GarnishDebt, 1, <<1>>).db

InitGarnish ==
    /\ InitRest
    /\ client = ReadyClient
    /\ \E p \in 0..100 : StoreIs(GarnishStore(p))

NextGarnish ==
    \/ \E A \in 0..MaxIncoming : TransferArrives(1, A, MaxTransfers)
    \/ HandlerStep(1)

SpecGarnish == InitGarnish /\ [][NextGarnish]_vars

(***************************************************************************)
(* SpecRace: transfer callbacks of the same borrower run concurrently,     *)
(* interleaved at their store round trips, with borrowing and full manual  *)
(* repayment.                                                              *)
(***************************************************************************)
NextRace ==
    \/ CreateVouch("v1", "b", MaxLimit)
    \/ \E a \in BorrowAmounts : Borrow("b", a, 0, MaxDebts)
    \/ \E id \in 1..MaxDebts : RepayDebt("b", id, MaxLimit, MaxRepays)
    \/ \E h \in HandlerIds, A \in TransferAmounts :
          TransferArrives(h, A, MaxRaceTransfers)
    \/ \E h \in HandlerIds : HandlerStep(h)

SpecRace == Init /\ [][NextRace]_vars

(***************************************************************************)
(* SpecBorrow: vouches of two vouchers, borrowing and manual repayment.    *)
(***************************************************************************)
NextBorrow ==
    \/ \E v \in Vouchers, a \in 1..MaxLimit : CreateVouch(v, "b", a)
    \/ \E id \in 1..Cardinality(Vouchers) : DeactivateVouch(id)
    \/ \E a \in 1..(2 * MaxLimit + 1) : Borrow("b", a, 0, MaxDebts)
    \/ \E id \in 1..MaxDebts, a \in 1..MaxLimit :
          RepayDebt("b", id, a, MaxRepays)

SpecBorrow == Init /\ [][NextBorrow]_vars

(***************************************************************************)
(* SpecAllocate: borrowing against two vouches of limits up to             *)
(* ScenarioLimit; in units of 500 the limits 3 and 2 are the vouches of    *)
(* 1500 and 1000 and a request of 4 is the request for 2000.               *)
(***************************************************************************)
TwoVouches(l1, l2) ==
    createVouch(createVouch(EmptyStore, "v1", userAddress, l1).db,
                "v2", userAddress, l2).db

InitAllocate ==
    /\ InitRest
    /\ client = ReadyClient
    /\ \E l1, l2 \in 1..ScenarioLimit : StoreIs(TwoVouches(l1, l2))

NextAllocate ==
    \/ \E a \in 1..(2 * ScenarioLimit) : Borrow("b", a, 0, MaxDebts + 1)
    \/ \E id \in 1..Cardinality(Vouchers) : DeactivateVouch(id)

SpecAllocate == InitAllocate /\ [][NextAllocate]_vars

(***************************************************************************)
(* SpecPaths: the paths of the callback: the toggle on and off, with and   *)
(* without an open debt, on a server with and without VAULT_ADDRESS.       *)
(***************************************************************************)
InitPaths ==
    /\ InitServer
    /\ vaultConfigured \in BOOLEAN
    /\ contractsConfigured = TRUE
    /\ oracleFaults = {}
    /\ client = ReadyClient
    /\ StoreIs(EmptyStore)

NextPaths ==
    \/ CreateVouch("v1", "b", MaxLimit)
    \/ \E a \in BorrowAmounts, days \in 0..MaxTime :
          Borrow("b", a, days, MaxDebts)
    \/ \E enabled \in BOOLEAN : UpdateUserSettings("b", enabled)
    \/ \E A \in {MaxLimit, 2 * MaxLimit} : TransferArrives(1, A, MaxTransfers)
    \/ HandlerStep(1)

SpecPaths == InitPaths /\ [][NextPaths]_vars

(***************************************************************************)
(* SpecDaemonPay: the daemon's callback on the debts of its borrower.      *)
(***************************************************************************)
InitDaemonPay == InitRest /\ client = ReadyDaemon /\ StoreIs(EmptyStore)

NextDaemonPay ==
    \/ CreateVouch("v1", "b", MaxLimit)
    \/ \E a \in BorrowAmounts, days \in 0..MaxTime :
          Borrow("b", a, days, MaxDebts)
    \/ \E A \in {MaxLimit, 2 * MaxLimit} : DaemonOnTransfer(A, MaxTransfers)

SpecDaemonPay == InitDaemonPay /\ [][NextDaemonPay]_vars

(***************************************************************************)
(* SpecFaults: requests that break a business rule.  A voucher vouching    *)
(* for their own address, and repayments by either address on debt ids     *)
(* that exist, belong to the other address, are paid, or do not exist.     *)
(***************************************************************************)
NextFaults ==
    \/ \E v \in {"v1", "b"}, a \in 1..MaxLimit : CreateVouch(v, "b", a)
    \/ \E a \in BorrowAmounts : Borrow("b", a, 0, MaxDebts)
    \/ \E b \in {"v1", "b"}, id \in 0..(MaxDebts + 1), a \in 1..MaxLimit :
          RepayDebt(b, id, a, MaxRepays + 1)

SpecFaults == Init /\ [][NextFaults]_vars

(***************************************************************************)
(* SpecTeardown: POST /disconnect arrives while a transfer callback of the *)
(* session is between its store round trips.                               *)
(***************************************************************************)
NextTeardown ==
    \/ CreateVouch("v1", "b", MaxLimit)
    \/ \E a \in BorrowAmounts : Borrow("b", a, 0, MaxDebts)
    \/ \E A \in {MaxLimit, 2 * MaxLimit} :
          isReady(client) /\ TransferArrives(1, A, MaxTransfers + 1)
    \/ HandlerStep(1)
    \/ Disconnect

SpecTeardown == Init /\ [][NextTeardown]_vars

(***************************************************************************)
(* SpecAgents: POST /connect requests for one identity, two of them at a   *)
(* time, with the agents' sockets dropping and reconnecting, and POST      *)
(* /disconnect.                                                            *)
(***************************************************************************)
InitAgents == InitRest /\ client = NoAgents /\ StoreIs(EmptyStore)

NextAgents ==
    \/ \E r \in ConnectRequests : ConnectBegins(r)
    \/ \E a \in 1..MaxAgents : AgentAuthenticated(a)
    \/ \E a \in 1..MaxAgents : AgentClose(a)
    \/ AgentDisconnect

SpecAgents == InitAgents /\ [][NextAgents]_vars

(***************************************************************************)
(* SpecInterleave: a borrow whose vouches query and inserts are separate   *)
(* steps, with vouches being created and revoked in between.               *)
(***************************************************************************)
NextInterleave ==
    \/ \E v \in Vouchers, a \in 1..MaxLimit : CreateVouch(v, "b", a)
    \/ \E id \in 1..Cardinality(Vouchers) : DeactivateVouch(id)
    \/ \E a \in 1..(2 * MaxLimit) : BorrowReads("b", a, 0)
    \/ BorrowInserts(MaxDebts)
    \/ \E id \in 1..MaxDebts : RepayDebt("b", id, MaxLimit, MaxRepays)

SpecInterleave == Init /\ [][NextInterleave]_vars

(***************************************************************************)
(* SpecScore: any sequence of score updates on one account.                *)
(***************************************************************************)
ScoreChanges == {ON_TIME_BONUS, 0 - LATE_PAYMENT_PENALTY, 0 - DEFAULT_PENALTY}

NextScore == \E change \in ScoreChanges : UpdateCreditScore("b", change)

SpecScore == Init /\ [][NextScore]_vars

(***************************************************************************)
(* SpecSettle: full payment of a debt, by the callback or by manual        *)
(* repayment, for a borrower in good standing or one whose score the       *)
(* default penalties of StripDefaults earlier debts have taken below the   *)
(* strip threshold.                                                        *)
(***************************************************************************)
RECURSIVE Penalised(_, _)
Penalised(db, n) ==
    IF n = 0 THEN db
    ELSE Penalised(updateCreditScore(db, userAddress,
                                     0 - DEFAULT_PENALTY).db, n - 1)

InitSettle ==
    /\ InitRest
    /\ client = ReadyClient
    /\ \E n \in {0, StripDefaults} : StoreIs(Penalised(EmptyStore, n))

NextSettle ==
    \/ CreateVouch("v1", "b", MaxLimit)
    \/ \E a \in BorrowAmounts : Borrow("b", a, 0, MaxDebts)
    \/ \E id \in 1..MaxDebts, a \in 1..MaxLimit :
          RepayDebt("b", id, a, MaxRepays)
    \/ Tick
    \/ \E A \in TransferAmounts : TransferArrives(1, A, MaxTransfers)
    \/ HandlerStep(1)

SpecSettle == InitSettle /\ [][NextSettle]_vars

(***************************************************************************)
(* SpecClear: payoffs by the callback, with borrowing in between, for a    *)
(* borrower in good standing or a stripped one.                            *)
(***************************************************************************)
NextClear ==
    \/ CreateVouch("v1", "b", MaxLimit)
    \/ \E a \in BorrowAmounts : Borrow("b", a, 0, MaxDebts)
    \/ \E A \in {2 * MaxLimit} : TransferArrives(1, A, MaxTransfers)
    \/ HandlerStep(1)

SpecClear == InitSettle /\ [][NextClear]_vars

(***************************************************************************)
(* SpecStrip: score updates on the account of a borrower who owes one debt *)
(* of 1, with the callback that pays the debt off and clears the flag.     *)
(***************************************************************************)
StripStore ==
    borrow(createVouch(EmptyStore, "v1", userAddress, MaxLimit).db,
           userAddress, 1, 1, <<1>>).db

InitStrip == InitRest /\ client = ReadyClient /\ StoreIs(StripStore)

NextStrip ==
    \/ \E change \in ScoreChanges : UpdateCreditScore("b", change)
    \/ \E A \in TransferAmounts : TransferArrives(1, A, MaxTransfers)
    \/ HandlerStep(1)

SpecStrip == InitStrip /\ [][NextStrip]_vars

(***************************************************************************)
(* SpecOracle: SpecStrip with an oracle some of whose writes fail.         *)
(***************************************************************************)
InitOracle ==
    /\ InitServer
    /\ vaultConfigured = TRUE
    /\ contractsConfigured = TRUE
    /\ oracleFaults \in SUBSET OracleCalls
    /\ client = ReadyClient
    /\ StoreIs(StripStore)

SpecOracle == InitOracle /\ [][NextStrip]_vars

(***************************************************************************)
(* SpecSweep: debts falling due and the hourly overdue sweep.              *)
(***************************************************************************)
NextSweep ==
    \/ \E a \in 1..MaxLimit : CreateVouch("v1", "b", a)
    \/ \E a \in BorrowAmounts, days \in 0..MaxTime : Borrow("b", a, days, MaxDebts)
    \/ Tick
    \/ CheckOverdueDebts

SpecSweep == Init /\ [][NextSweep]_vars

(***************************************************************************)
(* SpecSession: one BankClient from construction on.                       *)
(***************************************************************************)
InitSession == InitRest /\ client = NewClient /\ StoreIs(EmptyStore)

SessionEnvelopes ==
    MalformedEnvelopes \cup {LedgerEnvelope}
    \cup {[kind |-> "res", type |-> "transfer", allocations |-> <<a>>] :
            a \in {x \in Allocations : x.has /\ x.destination[2] = "b"}}

NextSession ==
    \/ Connect
    \/ WsOpenEvent
    \/ RecvAuthChallenge
    \/ RecvAuthVerify
    \/ UnexpectedClose
    \/ CloseEvent
    \/ ReconnectTimerFires
    \/ InitTimeout
    \/ Disconnect
    \/ \E env \in SessionEnvelopes : RecvMessage(env, 1, MaxTransfers)
    \/ HDebts(1)

SpecSession == InitSession /\ [][NextSession]_vars

(***************************************************************************)
(* SpecDaemon: the daemon's BankClient from main() on.                     *)
(***************************************************************************)
InitDaemon == InitRest /\ client = NewDaemon /\ StoreIs(EmptyStore)

NextDaemon ==
    \/ DaemonOpen
    \/ DaemonRecvAuthChallenge
    \/ DaemonRecvAuthVerify
    \/ \E env \in MalformedEnvelopes \cup TransferEnvelopes
                   \cup {LedgerEnvelope} : DaemonRecvMessage(env)
    \/ DaemonError
    \/ DaemonClose
    \/ DaemonTick

SpecDaemon == InitDaemon /\ [][NextDaemon]_vars

(***************************************************************************)
(* Properties.                                                             *)
(***************************************************************************)
AllIdle == \A h \in HandlerIds : handlers[h].pc = "idle"

DebtIds == 1..Len(debts)

\* the sum of limit - usage over the borrower's active rows of a vouches table
AvailableIn(rows, b) ==
    LET ids == {i \in 1..Len(rows) :
                   rows[i].borrower_address = b /\ rows[i].is_active}
    IN  SumSet(ids, [i \in ids |-> rows[i].limit_amount - rows[i].current_usage])

ActiveIn(rows, b) ==
    {i \in 1..Len(rows) : rows[i].borrower_address = b /\ rows[i].is_active}

\* the debts the last borrow inserted
NewDebts == (lastResult.preDebts + 1)..Len(debts)

\* C1 (SpecGarnish): when the callback has split a transfer of A against the
\* oldest open debt owing D at percentage p, the amount sent to the vault is
\* min(floor(A*p/100), D) and the remainder kept is A minus that amount.
C1_GarnishExact ==
    lastSplit.debt # 0 =>
        /\ lastSplit.sent =
              Min((lastSplit.amount * lastSplit.pct) \div 100, lastSplit.owed)
        /\ lastSplit.remainder = lastSplit.amount - lastSplit.sent

\* C2 (SpecRace): with no manual repayment made and no callback in flight,
\* the total reduction of amount_owed over all debts equals the total amount
\* the callbacks sent to the vault.
C2_NoLostRelief ==
    (AllIdle /\ opCount.repays = 0) =>
        SumSet(DebtIds, [d \in DebtIds |->
            debts[d].original_amount - debts[d].amount_owed]) = vaultTotal

\* C3 (Spec): every debt has 0 <= amount_owed <= original_amount.
C3_OwedWithinOriginal ==
    \A d \in DebtIds :
        debts[d].amount_owed >= 0
        /\ debts[d].amount_owed <= debts[d].original_amount

\* C4 (SpecScore): every account's credit_score, and the new score every
\* update records, lies in 300..900.
C4_ScoreInRange ==
    /\ \A a \in DOMAIN users :
          users[a].credit_score >= 300 /\ users[a].credit_score <= 900
    /\ credit_history.new_score >= 300
    /\ credit_history.new_score <= 900

\* an update has been clamped at the lower end
C4_Witness ==
    /\ credit_history.wallet_address = "b"
    /\ credit_history.old_score < 300 + DEFAULT_PENALTY
    /\ credit_history.new_score = 300
    /\ users["b"].credit_score = 300

\* C5 (Spec): every vouch has 0 <= current_usage <= limit_amount.
C5_UsageWithinLimit ==
    \A v \in 1..Len(vouches) :
        vouches[v].current_usage >= 0
        /\ vouches[v].current_usage <= vouches[v].limit_amount

\* C6 (SpecBorrow): a borrow of R with 0 < R <= available credit succeeds; the
\* debts it creates sum to R, are one per vouch, active, owing their original
\* amount, and each vouch's usage rises by exactly what was drawn from it.
C6_BorrowAllocates ==
    (/\ lastResult.op = "borrow"
     /\ lastResult.amount > 0
     /\ lastResult.amount <= AvailableIn(lastResult.pre, lastResult.borrower))
    =>
    /\ lastResult.success
    /\ lastResult.debts = NewDebts
    /\ NewDebts # {}
    /\ SumSet(NewDebts, [d \in NewDebts |-> debts[d].original_amount])
          = lastResult.amount
    /\ \A d \in NewDebts :
          /\ debts[d].borrower_address = lastResult.borrower
          /\ debts[d].original_amount > 0
          /\ debts[d].amount_owed = debts[d].original_amount
          /\ debts[d].status = "active"
          /\ debts[d].vouch_id \in ActiveIn(lastResult.pre, lastResult.borrower)
    /\ \A d, e \in NewDebts : d # e => debts[d].vouch_id # debts[e].vouch_id
    /\ Len(vouches) = Len(lastResult.pre)
    /\ \A v \in 1..Len(vouches) :
          LET drawn == {d \in NewDebts : debts[d].vouch_id = v}
          IN  vouches[v].current_usage =
                 lastResult.pre[v].current_usage
                 + SumSet(drawn, [d \in drawn |-> debts[d].original_amount])

\* a borrow within the available credit drew from two vouches and left
\* capacity on one of them
C6_Witness ==
    /\ lastResult.op = "borrow"
    /\ lastResult.amount > 0
    /\ lastResult.amount < AvailableIn(lastResult.pre, lastResult.borrower)
    /\ lastResult.success
    /\ Cardinality(NewDebts) = 2

C8_RoundTrip ==
    (AllIdle /\ DebtIds # {} /\ \A d \in DebtIds : debts[d].amount_owed = 0)
    =>
    /\ \A d \in DebtIds : debts[d].status = "paid"
    /\ \A v \in 1..Len(vouches) : vouches[v].current_usage = 0

\* C9 (SpecSession): after disconnect() has returned the client opens no new
\* transport and is not authenticated.
C9_DisconnectTerminal ==
    client.disconnected =>
        ~client.openedAfterDisconnect /\ ~client.isAuthenticated

C11_CallbackOnlyAuthenticated ==
    (lastResult.op = "message" /\ lastResult.invoked) => lastResult.auth

\* C12 (SpecDaemon): an init() promise is resolved only after verify-success
\* was received, and once the 30 s deadline has passed without
\* authentication it is rejected.
C12_InitSettles ==
    /\ client.promise = "resolved" => client.stage = "verified"
    /\ (client.elapsed > InitTimeoutMs /\ ~client.isAuthenticated)
          => client.promise = "rejected"

\* C13 (Spec): no step changes the status or the amount_owed of a debt whose
\* status is paid or defaulted.
C13_TerminalStates ==
    [][\A d \in DebtIds :
          debts[d].status \in {"paid", "defaulted"}
          => /\ debts'[d].status = debts[d].status
             /\ debts'[d].amount_owed = debts[d].amount_owed]_vars

\* C14 (SpecSweep): every overdue debt is past due and has cost its borrower
\* the late-payment penalty once, however many sweeps have run; right after
\* a sweep no active debt is past due.
C14_SweepOnce ==
    LET flipped == {d \in DebtIds : debts[d].status = "overdue"}
    IN  /\ users["b"].credit_score =
              DEFAULT - LATE_PAYMENT_PENALTY * Cardinality(flipped)
        /\ \A d \in DebtIds :
              /\ debts[d].status \in {"active", "overdue"}
              /\ debts[d].status = "overdue" => debts[d].due_date < now
        /\ lastResult.op = "sweep" =>
              /\ lastResult.debts \subseteq flipped
              /\ \A d \in DebtIds :
                    debts[d].status = "active" => debts[d].due_date >= now

\* a sweep has run again over a debt it had marked overdue, and over an
\* active debt not yet due, and has changed neither
C14_Witness ==
    /\ lastResult.op = "sweep"
    /\ lastResult.debts = {}
    /\ \E d \in DebtIds : debts[d].status = "overdue"
    /\ \E d \in DebtIds : debts[d].status = "active"
    /\ users["b"].credit_score = DEFAULT - LATE_PAYMENT_PENALTY

\* the debt the last manual repayment was made on
RepaidDebt == CHOOSE d \in lastResult.debts : TRUE

\* the last operation was a manual repayment that brought a debt to zero
FullManualRepayment ==
    /\ lastResult.op = "repay"
    /\ lastResult.success
    /\ payments.last.payment_type = "full"

\* C15 (SpecSettle): right after a manual repayment that brought a debt to
\* zero, the debt is paid, its vouch's usage is lower by the debt's original
\* amount, the score carries the on-time bonus when the debt was not past
\* due, and the stripped flag and the on-chain default are cleared when the
\* borrower has no active or overdue debt left.
C15_ManualFullyPaid ==
    FullManualRepayment =>
        LET d == RepaidDebt
            v == debts[d].vouch_id
            b == lastResult.borrower
        IN  /\ debts[d].status = "paid"
            /\ debts[d].amount_owed = 0
            /\ vouches[v].current_usage =
                  Max(0, lastResult.pre[v].current_usage
                         - debts[d].original_amount)
            /\ debts[d].due_date >= lastResult.time =>
                  users[b].credit_score =
                      Min(MAX, lastResult.preScore + ON_TIME_BONUS)
            /\ OpenDebts(DB, b) = {} =>
                  /\ ~users[b].ens_stripped
                  /\ ~OnchainOf(DB, b).defaulted

\* the number of default signals pushed to the oracle for an account
MarksOf(oc, a) == IF a \in DOMAIN oc THEN oc[a].marks ELSE 0

\* C16 (SpecStrip): a step pushes a default signal for an account only when
\* it takes the account from unflagged to flagged, and then one signal; a
\* score update that ends below 400 leaves the account flagged.
C16_StripOnce ==
    [][\A a \in DOMAIN users :
          /\ MarksOf(onchain', a) - MarksOf(onchain, a) =
                IF ~users[a].ens_stripped /\ users'[a].ens_stripped
                THEN 1 ELSE 0
          /\ (/\ credit_history' # credit_history
              /\ credit_history'.wallet_address = a
              /\ credit_history'.new_score < ENS_STRIP_THRESHOLD)
             => users'[a].ens_stripped]_vars

\* a score update from below 400 to below 400 has run on the flagged
\* account and the oracle has still received one signal
C16_Witness ==
    /\ credit_history.wallet_address = "b"
    /\ credit_history.old_score < ENS_STRIP_THRESHOLD
    /\ credit_history.new_score < ENS_STRIP_THRESHOLD
    /\ users["b"].ens_stripped
    /\ MarksOf(onchain, "b") = 1
    /\ AllIdle
    /\ opCount.transfers = 0

\* debt d, tied to vouch v, becomes fully paid in this step, or a callback
\* that has marked it paid is about to release its vouch
ReleasesFor(d, v) ==
    /\ debts[d].vouch_id = v
    /\ debts'[d].status = "paid"
    /\ debts'[d].amount_owed = 0
    /\ \/ debts[d].status # "paid"
       \/ \E h \in HandlerIds :
             handlers[h].pc = "vouchwrite" /\ handlers[h].debt = d

\* C17 (SpecRace): a step lowers a vouch's current_usage only when a debt
\* tied to the vouch is fully paid by it, and then by that debt's
\* original_amount.
C17_UsageRelease ==
    [][\A v \in 1..Len(vouches) :
          vouches'[v].current_usage < vouches[v].current_usage
          => \E d \in DebtIds :
                /\ ReleasesFor(d, v)
                /\ vouches[v].current_usage - vouches'[v].current_usage
                      = debts[d].original_amount]_vars

\* some debt referencing vouch v has status active or overdue
ReferencedByOpenDebt(v) ==
    \E d \in DebtIds :
        debts[d].vouch_id = v /\ debts[d].status \in {"active", "overdue"}

C18_AcceptedWitness ==
    /\ lastResult.op = "deactivate"
    /\ lastResult.success
    /\ ~vouches[lastResult.vouch].is_active
    /\ \E d \in DebtIds : debts[d].vouch_id = lastResult.vouch

\* the tables of the local store
LocalStore(db) ==
    [users |-> db.users, vouches |-> db.vouches, debts |-> db.debts,
     payments |-> db.payments, credit_history |-> db.credit_history]

\* the store with the oracle writes of F failing
WithFaults(F) == [DB EXCEPT !.faults = F]

\* C21 (SpecOracle): whichever oracle writes fail, a score update returns
\* the score and leaves the local tables it returns and leaves when none
\* fails, and so do stripping and the clearing of the default status after a
\* payoff.
C21_OracleFaultsSwallowed ==
    \A F \in SUBSET OracleCalls, a \in Borrowers :
        /\ \A change \in ScoreChanges :
              LET faulty == updateCreditScore(WithFaults(F), a, change)
                  sound == updateCreditScore(WithFaults({}), a, change)
              IN  /\ faulty.score = sound.score
                  /\ LocalStore(faulty.db) = LocalStore(sound.db)
        /\ LocalStore(stripENS(WithFaults(F), a))
              = LocalStore(stripENS(WithFaults({}), a))
        /\ LocalStore(ClearDefaultStatus(WithFaults(F), a))
              = LocalStore(ClearDefaultStatus(WithFaults({}), a))

\* the account was stripped while the oracle's markDefault was failing
C21_Witness ==
    /\ users[userAddress].ens_stripped
    /\ MarksOf(onchain, userAddress) = 0

DrawnFrom(v) == vouches[v].current_usage - lastResult.pre[v].current_usage

\* the last borrow found the vouches of 1500 and 1000 unused and asked for
\* 2000 (in units of 500)
ScenarioBorrow ==
    /\ lastResult.op = "borrow"
    /\ lastResult.amount = 4
    /\ \E v, w \in ActiveIn(lastResult.pre, lastResult.borrower) :
          /\ lastResult.pre[v].limit_amount = 3
          /\ lastResult.pre[w].limit_amount = 2
          /\ lastResult.pre[v].current_usage = 0
          /\ lastResult.pre[w].current_usage = 0

\* C23 (SpecAllocate): a successful borrow draws from a vouch only when
\* every active vouch of the borrower with a greater limit is left without
\* capacity, and leaves capacity on at most one vouch it drew from; with
\* vouches of 1500 and 1000 unused, a request for 2000 creates exactly two
\* debts, 1500 against the larger vouch and 500 against the smaller.
C23_LargestVouchFirst ==
    (lastResult.op = "borrow" /\ lastResult.success)
    =>
    LET act == ActiveIn(lastResult.pre, lastResult.borrower)
    IN  /\ \A v, w \in act :
              (/\ lastResult.pre[v].limit_amount > lastResult.pre[w].limit_amount
               /\ DrawnFrom(w) > 0)
              => vouches[v].current_usage >= vouches[v].limit_amount
        /\ Cardinality({v \in act :
                 /\ DrawnFrom(v) > 0
                 /\ vouches[v].current_usage < vouches[v].limit_amount}) <= 1
        /\ ScenarioBorrow =>
              /\ Cardinality(NewDebts) = 2
              /\ \E d, e \in NewDebts :
                    /\ debts[d].original_amount = 3
                    /\ lastResult.pre[debts[d].vouch_id].limit_amount = 3
                    /\ debts[e].original_amount = 1
                    /\ lastResult.pre[debts[e].vouch_id].limit_amount = 2

\* the scenario has run: 1500 and 500 were drawn
C23_Witness ==
    /\ ScenarioBorrow
    /\ lastResult.success
    /\ Cardinality(NewDebts) = 2

\* position of the first call of that name in a log, 0 when there is none
FirstCall(log, name) ==
    IF \E i \in DOMAIN log : log[i] = name
    THEN CHOOSE i \in DOMAIN log :
            log[i] = name /\ \A j \in DOMAIN log : log[j] = name => i <= j
    ELSE 0

\* C24 (SpecPaths): every run of the callback that has taken its decision
\* has called acceptTransfer, whichever path it took, and a run that called
\* sendTransfer called acceptTransfer before it.
C24_AcceptFirst ==
    lastSplit # NoSplit =>
        /\ lastSplit.accepted
        /\ FirstCall(lastSplit.log, "acceptTransfer") > 0
        /\ FirstCall(lastSplit.log, "sendTransfer") > 0 =>
              FirstCall(lastSplit.log, "acceptTransfer")
                 < FirstCall(lastSplit.log, "sendTransfer")
        /\ lastSplit.sent > 0 => FirstCall(lastSplit.log, "sendTransfer") > 0

\* a run has garnished: it accepted the transfer and then paid the vault
C24_Witness ==
    /\ lastSplit.sent > 0
    /\ lastSplit.log = <<"acceptTransfer", "sendTransfer">>
    /\ vaultTotal > 0

\* the step sends exactly msg on the socket of the session
Sends(msg) == client'.sock.sent = Append(client.sock.sent, msg)

\* C25 (SpecSession): on every socket the auth request is the first message
\* sent and is sent in the step in which the socket opens; the verify
\* message is sent only in the step that receives the challenge; the client
\* turns authenticated only in the step that receives auth_verify, which
\* also sends the ledger-balance query; and the query is sent in no other
\* step.  Every step sends at most one message.
C25_HandshakeOrder ==
    [][/\ client'.sock.sent # client.sock.sent =>
             \/ client'.sock.sent = <<>>
             \/ Sends("auth_request") \/ Sends("auth_verify")
             \/ Sends("get_ledger_balances")
       /\ Sends("auth_request") =>
             /\ client.sock.sent = <<>>
             /\ client.sock.state = "connecting"
             /\ client'.sock.state = "open"
       /\ Sends("auth_verify") =>
             /\ client.sock.stage = "requested"
             /\ client'.sock.stage = "challenged"
       /\ Sends("get_ledger_balances") <=>
             (~client.isAuthenticated /\ client'.isAuthenticated)
       /\ (~client.isAuthenticated /\ client'.isAuthenticated) =>
             /\ client.sock.stage = "challenged"
             /\ client'.sock.stage = "verified"]_vars

\* a reconnected socket has completed the handshake in order
C25_Witness ==
    /\ client.opened > 1
    /\ client.isAuthenticated
    /\ client.sock.sent = <<"auth_request", "auth_verify",
                            "get_ledger_balances">>

\* C26 (SpecSession): while the session is authenticated on a socket that a
\* reconnect attempt opened, the reconnect-attempt counter is zero, so that
\* the next unexpected close sleeps the base delay.
C26_ReconnectResets ==
    (client.isAuthenticated /\ client.sock.init = "reconnect")
    => client.reconnectAttempts = 0

\* this step is the callback receiving a transfer
CallbackInvoked == opCount'.transfers = opCount.transfers + 1

\* C27 (SpecPaths): a run of the callback that finds the borrower's
\* auto-repay toggle off ends in that step having accepted the transfer:
\* nothing is sent to the vault, no payment is recorded, and no row of the
\* users, vouches and debts tables and nothing at the oracle changes.
C27_AutoRepayOff ==
    [][(CallbackInvoked /\ ~users[userAddress].auto_repay_enabled)
       => /\ lastSplit'.accepted
          /\ lastSplit'.log = <<"acceptTransfer">>
          /\ lastSplit'.sent = 0
          /\ lastSplit'.remainder = lastSplit'.amount
          /\ vaultTotal' = vaultTotal
          /\ payments' = payments
          /\ debts' = debts
          /\ vouches' = vouches
          /\ users' = users
          /\ credit_history' = credit_history
          /\ onchain' = onchain
          /\ handlers' = handlers]_vars

\* a transfer was accepted in full, the toggle off, while a debt was open
C27_Witness ==
    /\ ~users[userAddress].auto_repay_enabled
    /\ lastSplit.accepted
    /\ lastSplit.remainder = lastSplit.amount
    /\ lastSplit.amount > 0
    /\ lastSplit.debt = 0
    /\ opCount.transfers > 0
    /\ OpenDebts(DB, userAddress) # {}
    /\ AllIdle

\* this step is the callback of handler 1 deciding on the debts it found
DebtsAnswered == handlers[1].pc = "debts" /\ handlers'[1].pc # "debts"

\* C28 (SpecPaths): on a server without VAULT_ADDRESS, a run of the callback
\* that finds an open debt accepts the transfer and ends: nothing is sent,
\* no payment is recorded, no debt changes, and the run does not fail.
C28_NoVaultAcceptOnly ==
    [][(DebtsAnswered /\ ~vaultConfigured /\ OpenDebts(DB, userAddress) # {})
       => /\ lastSplit'.accepted
          /\ lastSplit'.log = <<"acceptTransfer">>
          /\ lastSplit'.sent = 0
          /\ vaultTotal' = vaultTotal
          /\ payments' = payments
          /\ debts' = debts
          /\ handlers'[1] = Idle]_vars

\* without a vault, a transfer for a borrower in debt was accepted only
C28_Witness ==
    /\ ~vaultConfigured
    /\ lastSplit.accepted
    /\ lastSplit.debt # 0
    /\ lastSplit.garnish > 0
    /\ lastSplit.sent = 0
    /\ OpenDebts(DB, userAddress) # {}
    /\ AllIdle

\* C29 (SpecDaemonPay): a step that sends a garnish to the vault has chosen
\* a debt of the borrower that was active or overdue with no open debt due
\* earlier (so none is sent when the borrower has no open debt), and a step
\* lowers amount_owed of no debt but the chosen one.
C29_OldestDebtOnly ==
    [][/\ vaultTotal' > vaultTotal =>
             lastSplit'.debt \in OldestOpenDebts(DB, userAddress)
       /\ \A e \in DebtIds :
             debts'[e].amount_owed < debts[e].amount_owed
             => e = lastSplit'.debt]_vars

C30_KeptWitness ==
    /\ lastSplit.debt # 0
    /\ debts[lastSplit.debt].status = "paid"
    /\ users[userAddress].ens_stripped
    /\ OpenDebts(DB, userAddress) # {}
    /\ AllIdle

\* the total of the payment rows of a debt in a payments table
TotalIn(table, d) == IF d \in 1..Len(table.total) THEN table.total[d] ELSE 0

\* C31: a manual repayment of x on an unpaid debt lowers amount_owed by
\* exactly min(x, amount_owed) and inserts exactly one payment row of that
\* amount, of type full when nothing is owed afterwards and manual
\* otherwise; while something is still owed the status stays as it was.
C31_ManualRepayment ==
    [][opCount'.repays = opCount.repays + 1 =>
         LET id == RepaidDebt'
             paid == Min(lastResult'.amount, debts[id].amount_owed)
         IN  /\ debts[id].status # "paid"
             /\ debts'[id].amount_owed = debts[id].amount_owed - paid
             /\ payments'.rows = payments.rows + 1
             /\ TotalIn(payments', id) = TotalIn(payments, id) + paid
             /\ payments'.last =
                    [debt_id |-> id, amount |-> paid,
                     payment_type |-> IF debts'[id].amount_owed = 0
                                      THEN "full" ELSE "manual"]
             /\ debts'[id].amount_owed > 0 =>
                    debts'[id].status = debts[id].status]_vars

\* a partial repayment has just been recorded
C31_Witness ==
    /\ lastResult.op = "repay"
    /\ lastResult.success
    /\ payments.last.payment_type = "manual"
    /\ payments.last.amount > 0
    /\ debts[RepaidDebt].amount_owed > 0

\* a repayment larger than the amount owed has just closed a debt
C31_CappedWitness ==
    /\ lastResult.op = "repay"
    /\ lastResult.success
    /\ payments.last.payment_type = "full"
    /\ payments.last.amount < lastResult.amount

\* the credit score of every account
Scores == [a \in DOMAIN users |-> users[a].credit_score]

\* C32: a repayment on a debt that does not exist for that borrower or is
\* already paid, and a vouch for one's own address, return a failure and
\* insert no payment and change no debt, vouch or credit score; a repayment
\* that succeeds is on a debt of that borrower that was not paid, and no
\* vouch row has the borrower as its voucher.
C32_FaultsChangeNothing ==
    [][/\ (lastResult'.op \in {"repay", "vouch"} /\ ~lastResult'.success) =>
            /\ lastResult'.error \in
                   IF lastResult'.op = "repay"
                   THEN {"Debt not found", "Debt already paid"}
                   ELSE {"Cannot vouch for yourself"}
            /\ UNCHANGED <<payments, debts, vouches>>
            /\ Scores' = Scores
       /\ (lastResult'.op = "repay" /\ lastResult'.success) =>
            /\ RepaidDebt' \in DebtIds
            /\ debts[RepaidDebt'].borrower_address = lastResult'.borrower
            /\ debts[RepaidDebt'].status # "paid"
       /\ \A i \in 1..Len(vouches') :
             vouches'[i].voucher_address # vouches'[i].borrower_address]_vars

\* a vouch for one's own address has just been refused
C32_Witness ==
    /\ lastResult.op = "vouch"
    /\ lastResult.error = "Cannot vouch for yourself"
    /\ Len(vouches) > 0

\* a repayment on a paid debt has just been refused
C32_PaidWitness ==
    /\ lastResult.op = "repay"
    /\ lastResult.error = "Debt already paid"
    /\ \E d \in DebtIds : debts[d].status = "paid"

\* a repayment on another borrower's open debt has just been refused
C32_NotFoundWitness ==
    /\ lastResult.op = "repay"
    /\ lastResult.error = "Debt not found"
    /\ lastResult.borrower = "v1"
    /\ \E d \in DebtIds : debts[d].status \in OpenStatus

\* the debts whose status becomes defaulted in this step
NewlyDefaulted ==
    {d \in DebtIds : debts'[d].status = "defaulted" /\
                     debts[d].status # "defaulted"}

\* C33: a debt becomes defaulted only from overdue, never from active, and
\* never in a step of the overdue sweep.
C33_DefaultedFromOverdue ==
    [][/\ \A d \in NewlyDefaulted : debts[d].status = "overdue"
       /\ lastResult'.op = "sweep" => NewlyDefaulted = {}]_vars

\* C34: a callback that was started before disconnect() still sends the
\* garnish it computes to the vault and goes on to its payment row and debt
\* update.
C34_InFlightCompletes ==
    [][\A h \in HandlerIds :
          (/\ handlers[h].pc = "debts"
           /\ handlers'[h] # handlers[h]
           /\ lastSplit'.garnish > 0
           /\ vaultConfigured)
          => /\ lastSplit'.sent = lastSplit'.garnish
             /\ handlers'[h].pc = "payment"]_vars

\* C35: an identity has at most one live session, and no agent holding a
\* transfer callback runs, or waits to reconnect, outside activeAgents.
C35_OneLiveSession ==
    /\ Cardinality(LiveSessions(client)) <= 1
    /\ Unregistered(client) = {}

\* the debts drawn on a vouch that are not paid
UnpaidOn(v) == {d \in DebtIds : debts[d].vouch_id = v /\ debts[d].status # "paid"}

\* C36: while no callback is running, the current_usage of every vouch is
\* the sum of original_amount over its debts that are not paid.
C36_UsageMatchesDebts ==
    AllIdle =>
        \A v \in 1..Len(vouches) :
            vouches[v].current_usage =
                SumSet(UnpaidOn(v),
                       [d \in UnpaidOn(v) |-> debts[d].original_amount])

\* C37: while no callback is running, the payment rows of every debt add up
\* to original_amount - amount_owed.
C37_PaymentsMatchDebts ==
    AllIdle =>
        \A d \in DebtIds :
            TotalIn(payments, d) =
                debts[d].original_amount - debts[d].amount_owed

\* C38: every active or overdue debt is drawn on a vouch that is active.
C38_OpenDebtOnActiveVouch ==
    \A d \in DebtIds :
        debts[d].status \in OpenStatus => vouches[debts[d].vouch_id].is_active

\* C39: a step that raises the credit score of an account does not mark a
\* default at the Status Oracle and does not set the stripped flag of an
\* account that was not flagged.
C39_BonusNeverStrips ==
    [][\A a \in DOMAIN users :
          users'[a].credit_score > users[a].credit_score
          => /\ MarksOf(onchain', a) = MarksOf(onchain, a)
             /\ ~users[a].ens_stripped => ~users'[a].ens_stripped]_vars

\* the callback of handler h decides on a transfer in this step, with a
\* garnish to send and a session that is not ready
SendFails(h) ==
    /\ handlers[h].pc = "debts"
    /\ handlers'[h] # handlers[h]
    /\ lastSplit'.garnish > 0
    /\ vaultConfigured
    /\ ~isReady(client)

\* C40: when sendTransfer throws, the callback inserts no payment, leaves
\* debts and vouches as they were, sends nothing, and returns; the client
\* is left as it was.
C40_FailedSendChangesNothing ==
    [][\A h \in HandlerIds :
          SendFails(h)
          => /\ UNCHANGED <<payments, debts, vouches, vaultTotal, client>>
             /\ lastSplit'.sent = 0
             /\ lastSplit'.accepted
             /\ handlers'[h] = Idle]_vars

\* a callback has just returned after a failed send, the debt still open
C40_Witness ==
    /\ AllIdle
    /\ lastSplit.garnish > 0
    /\ lastSplit.sent = 0
    /\ vaultConfigured
    /\ ~isReady(client)
    /\ payments.rows = 0
    /\ debts[lastSplit.debt].status \in OpenStatus
    /\ debts[lastSplit.debt].amount_owed = lastSplit.owed

\* two addresses that differ at most in the case of their letters
EqualIgnoringCase(x, y) ==
    /\ Len(x) = Len(y)
    /\ \A i \in 1..Len(x) :
          x[i] = y[i] \/ {x[i], y[i]} \in {{"a", "A"}, {"b", "B"}}

\* some allocation of the envelope is addressed to the session
AddressedToSession(env) ==
    \E i \in DOMAIN env.allocations :
        /\ env.allocations[i].has
        /\ EqualIgnoringCase(env.allocations[i].destination, accountAddress)

\* C19 (SpecDaemon): with a callback registered, the router has invoked it
\* for a transfer / channel-update envelope exactly when some allocation's
\* destination equals the session's address up to the case of its letters.
C19_RouterIff ==
    (/\ lastResult.op = "message"
     /\ lastResult.registered
     /\ lastResult.env.kind = "res"
     /\ lastResult.env.type \in TransferTypes)
    => (lastResult.invoked <=> AddressedToSession(lastResult.env))

\* C20 (SpecDaemon): a step in which the message handler has processed a
\* malformed envelope leaves the client, the store and the callbacks in
\* flight unchanged.
C20_MalformedDropped ==
    [][(/\ lastResult'.op = "message"
        /\ lastResult' # lastResult
        /\ lastResult'.env.kind \in MalformedKinds)
       => (client' = client /\ UNCHANGED <<storeVars, handlers>>)]_vars

====
